---- MODULE Spec2Model ----
(***************************************************************************)
(* Verification model of the text-behind-foreground overlay:               *)
(*   src/src/utils/foregroundDetection.ts   pixel passes (two versions of  *)
(*       detectForeground: IMG.LY alpha threshold, and gradient edge)      *)
(*   src/src/components/ImageTextOverlay.tsx   the React component: upload *)
(*       pipeline, compositor (renderCompositeImage), render scheduling    *)
(*                                                                         *)
(* Two specifications share the variables:                                 *)
(*   SpecPixel  pixel buffers; Init draws small images, text layers,       *)
(*              cutouts and masks, the actions apply the pixel passes.     *)
(*   Spec       the component as an event system: uploads, file reader,    *)
(*              pipeline runs, animation frames, timers, pointer events.   *)
(***************************************************************************)
EXTENDS Integers, Sequences, FiniteSets, TLC

(***************************************************************************)
(* Bounds of the pixel model                                               *)
(***************************************************************************)
MaxW == 5
MaxH == 5
MaxBW == 2
MaxBH == 2

(***************************************************************************)
(* Bounds of the single-function model                                     *)
(***************************************************************************)
\* dilate: mask width and height, iterations
MaxMaskW == 5
MaxMaskH == 5
MaxIterations == 2

\* standard edge detection: image width and height
MaxSobelW == 4
MaxSobelH == 4

\* fast edge detection: image width and height
MaxFastW == 7
MaxFastH == 7

\* alpha threshold: pixels of the cutout
MaxCutoutLen == 3
MaxSmallEdge == 40
MaxContentLen == 3
MaxUniformW == 6
MaxUniformH == 6
\* largest image whose buffer accesses are enumerated
MaxAccessW == 6
MaxAccessH == 6
\* largest image of the border check of the gradient-edge path
MaxBorderW == 5
MaxBorderH == 5

(***************************************************************************)
(* Typed-array helpers.  Buffers are sequences; JavaScript index i is      *)
(* sequence index i+1.  Reading outside a typed array gives undefined,     *)
(* writing outside is ignored.                                             *)
(***************************************************************************)
Undefined == -1

Rd(a, i) == IF i >= 0 /\ i < Len(a) THEN a[i + 1] ELSE Undefined

Min2(a, b) == IF a < b THEN a ELSE b

Max2(a, b) == IF a > b THEN a ELSE b

Abs(a) == IF a < 0 THEN -a ELSE a

\* RGBA pixels as getImageData returns them
Transparent == <<0, 0, 0, 0>>

ImgPalette == { <<0, 0, 0, 255>>, <<151, 0, 0, 255>> }

CutoutPalette == { Transparent, <<90, 80, 70, 255>>, <<40, 50, 60, 128>> }

(***************************************************************************)
(* foregroundDetection.ts (gradient edge)                                  *)
(***************************************************************************)
\* getGray returns (r+g+b)/3; GraySum3 is three times that value, an integer
GraySum3(data, index) == data[index + 1][1] + data[index + 1][2] + data[index + 1][3]

\* three times the horizontal Sobel gradient at (x, y)
HorizontalGradient3(data, width, x, y) ==
    (-1) * GraySum3(data, (y - 1) * width + (x - 1))
  + (-2) * GraySum3(data, y * width + (x - 1))
  + (-1) * GraySum3(data, (y + 1) * width + (x - 1))
  + 1 * GraySum3(data, (y - 1) * width + (x + 1))
  + 2 * GraySum3(data, y * width + (x + 1))
  + 1 * GraySum3(data, (y + 1) * width + (x + 1))

\* a vertical kernel whose weights do not sum to zero (top centre -1)
VerticalGradient3_Unbalanced(data, width, x, y) ==
    (-1) * GraySum3(data, (y - 1) * width + (x - 1))
  + (-1) * GraySum3(data, (y - 1) * width + x)
  + (-1) * GraySum3(data, (y - 1) * width + (x + 1))
  + 1 * GraySum3(data, (y + 1) * width + (x - 1))
  + 2 * GraySum3(data, (y + 1) * width + x)
  + 1 * GraySum3(data, (y + 1) * width + (x + 1))

\* three times the vertical Sobel gradient at (x, y)
VerticalGradient3(data, width, x, y) ==
    (-1) * GraySum3(data, (y - 1) * width + (x - 1))
  + (-2) * GraySum3(data, (y - 1) * width + x)
  + (-1) * GraySum3(data, (y - 1) * width + (x + 1))
  + 1 * GraySum3(data, (y + 1) * width + (x - 1))
  + 2 * GraySum3(data, (y + 1) * width + x)
  + 1 * GraySum3(data, (y + 1) * width + (x + 1))

RECURSIVE ISqrtBin(_, _, _)
\* largest k in lo..hi with k*k <= n (lo*lo <= n is given)
ISqrtBin(n, lo, hi) ==
  IF lo >= hi THEN lo
  ELSE LET mid == (lo + hi + 1) \div 2
       IN IF mid * mid <= n THEN ISqrtBin(n, mid, hi) ELSE ISqrtBin(n, lo, mid - 1)

\* result[i] = Math.min(255, Math.sqrt(gx*gx + gy*gy)) stored in a
\* Uint8ClampedArray: the store rounds to the nearest integer.  With
\* q = (3gx)^2 + (3gy)^2 the magnitude is sqrt(q)/3, and the stored value is
\* the k with (6k-3)^2 < 4q < (6k+3)^2 (4q is even, the bounds are odd, so
\* there are no ties).
StoredMagnitude(gx3, gy3) ==
  LET q == gx3 * gx3 + gy3 * gy3
  IN IF q >= 765 * 765 THEN 255
     ELSE (ISqrtBin(4 * q, 0, 1530) + 3) \div 6

applySobelOperator(data, width, height) ==
  [i \in 1..(width * height) |->
     LET x == (i - 1) % width
         y == (i - 1) \div width
     IN IF y >= 1 /\ y < height - 1 /\ x >= 1 /\ x < width - 1
        THEN StoredMagnitude(HorizontalGradient3(data, width, x, y),
                             VerticalGradient3(data, width, x, y))
        ELSE 0]

SobelThreshold == 50

\* a threshold pass that keeps the gradient magnitude of edge pixels
ThresholdMask_KeepsMagnitude(sobelData, n) ==
  [i \in 1..n |-> IF Rd(sobelData, i - 1) > SobelThreshold THEN Rd(sobelData, i - 1) ELSE 0]

\* detectForeground, standard mode: mask[i] = sobelData[i] > threshold ? 255 : 0
ThresholdMask(sobelData, n) ==
  [i \in 1..n |-> IF Rd(sobelData, i - 1) > SobelThreshold THEN 255 ELSE 0]

FastStep == 2

FastThreshold == 30

\* the sampled pixels of fastEdgeDetection whose difference exceeds the threshold
FastEdgeSamples(data, width, height) ==
  { s \in (0..(width - 1)) \X (0..(height - 1)) :
      LET x == s[1]
          y == s[2]
      IN /\ x >= FastStep /\ x < width - FastStep /\ (x - FastStep) % FastStep = 0
         /\ y >= FastStep /\ y < height - FastStep /\ (y - FastStep) % FastStep = 0
         /\ LET p == data[y * width + x + 1]
                rt == data[y * width + x + FastStep + 1]
                dn == data[(y + FastStep) * width + x + 1]
                dh == Abs(p[1] - rt[1]) + Abs(p[2] - rt[2]) + Abs(p[3] - rt[3])
                dv == Abs(p[1] - dn[1]) + Abs(p[2] - dn[2]) + Abs(p[3] - dn[3])
            IN Max2(dh, dv) > FastThreshold }

\* a fastEdgeDetection that marks the neighbours up to step pixels away
fastEdgeDetection_WideMark(data, width, height) ==
  LET samples == FastEdgeSamples(data, width, height)
      marked == { s[2] * width + s[1] + dy * width + dx :
                    s \in samples, dy \in -FastStep..FastStep, dx \in -FastStep..FastStep }
  IN [i \in 1..(width * height) |-> IF (i - 1) \in marked THEN 255 ELSE 0]

\* a fastEdgeDetection that marks the sampled pixel only
fastEdgeDetection_SampleOnly(data, width, height) ==
  LET marked == { s[2] * width + s[1] : s \in FastEdgeSamples(data, width, height) }
  IN [i \in 1..(width * height) |-> IF (i - 1) \in marked THEN 255 ELSE 0]

fastEdgeDetection(data, width, height) ==
  LET samples == FastEdgeSamples(data, width, height)
      marked == { s[2] * width + s[1] + dy * width + dx :
                    s \in samples, dy \in -1..1, dx \in -1..1 }
  IN [i \in 1..(width * height) |-> IF (i - 1) \in marked THEN 255 ELSE 0]

\* the neighbour test of dilate at index idx
hasWhiteNeighbor(temp, width, idx) ==
  \/ Rd(temp, idx - width - 1) = 255
  \/ Rd(temp, idx - width) = 255
  \/ Rd(temp, idx - width + 1) = 255
  \/ Rd(temp, idx - 1) = 255
  \/ Rd(temp, idx + 1) = 255
  \/ Rd(temp, idx + width - 1) = 255
  \/ Rd(temp, idx + width) = 255
  \/ Rd(temp, idx + width + 1) = 255

\* the indices the loops of dilate visit: 1 <= y < height - 1, 1 <= x < width - 1
DilateVisited(width, height) ==
  { y * width + x : x \in 1..(width - 2), y \in 1..(height - 2) }

\* loops that start at 0 and end at the last row and column
VisitOrder_AllPixels(width, height) ==
  IF width <= 0 \/ height <= 0 THEN <<>>
  ELSE [k \in 1..(width * height) |-> k - 1]

\* the indices of DilateVisited in the order the loops visit them: row by
\* row, each row from left to right
VisitOrder(width, height) ==
  IF width <= 2 \/ height <= 2 THEN <<>>
  ELSE [k \in 1..((width - 2) * (height - 2)) |->
          ((k - 1) \div (width - 2) + 1) * width + ((k - 1) % (width - 2)) + 1]

\* result[idx] = 255 (a write past the end of the array is ignored)
SetForeground(result, idx) ==
  IF idx < Len(result) THEN [result EXCEPT ![idx + 1] = 255] ELSE result

RECURSIVE DilateSweep_InPlace(_, _, _, _, _)
\* a sweep that tests the neighbours in the buffer it writes
DilateSweep_InPlace(temp, result, width, order, k) ==
  IF k > Len(order) THEN result
  ELSE DilateSweep_InPlace(temp,
                           IF hasWhiteNeighbor(result, width, order[k])
                           THEN SetForeground(result, order[k]) ELSE result,
                           width, order, k + 1)

RECURSIVE DilateSweep(_, _, _, _, _)
\* the loops over y and x of one iteration, from the k-th visited pixel on:
\* the neighbours are read in temp, the pixel is written in result
DilateSweep(temp, result, width, order, k) ==
  IF k > Len(order) THEN result
  ELSE DilateSweep(temp,
                   IF hasWhiteNeighbor(temp, width, order[k])
                   THEN SetForeground(result, order[k]) ELSE result,
                   width, order, k + 1)

\* one iteration of a dilate whose result buffer starts empty instead of as
\* a copy of the input
DilateOnce_FreshResult(temp, width, height) ==
  DilateSweep(temp, [i \in 1..Len(temp) |-> 0], width, VisitOrder(width, height), 1)

\* one iteration of dilate: result starts equal to temp (both are copies of
\* data, and temp is made equal to result after each iteration)
DilateOnce(temp, width, height) ==
  DilateSweep(temp, temp, width, VisitOrder(width, height), 1)

\* a dilate whose loop runs once whatever the iteration count is
dilate_AtLeastOnce(data, width, height, iterations) == DilateOnce(data, width, height)

RECURSIVE dilate(_, _, _, _)
dilate(data, width, height, iterations) ==
  IF iterations <= 0 THEN data
  ELSE dilate(DilateOnce(data, width, height), width, height, iterations - 1)

\* the mask of gradient-edge detectForeground before dilation
EdgeMask(data, width, height, fastMode) ==
  IF fastMode THEN fastEdgeDetection(data, width, height)
  ELSE ThresholdMask(applySobelOperator(data, width, height), Len(data))

DilateIterations(fastMode) == IF fastMode THEN 1 ELSE 2

\* a compositing loop that copies the text colour but not its alpha
CompositeA_KeepsAlpha(data, dilatedMask, textLayer) ==
  [i \in 1..Len(data) |->
     IF Rd(dilatedMask, i - 1) = 255 THEN data[i]
     ELSE IF textLayer[i][4] > 0
          THEN <<textLayer[i][1], textLayer[i][2], textLayer[i][3], data[i][4]>>
          ELSE data[i]]

\* Step 8 of gradient-edge detectForeground (Strategy A)
CompositeA(data, dilatedMask, textLayer) ==
  [i \in 1..Len(data) |->
     IF Rd(dilatedMask, i - 1) = 255 THEN data[i]
     ELSE IF textLayer[i][4] > 0 THEN textLayer[i] ELSE data[i]]

(***************************************************************************)
(* foregroundDetection.ts (IMG.LY) and the compositor of the component     *)
(***************************************************************************)
AlphaThreshold == 128

\* a createMaskFromForeground that counts the threshold alpha as foreground
createMaskFromForeground_AtLeast(fg) ==
  [i \in 1..Len(fg) |-> IF fg[i][4] >= AlphaThreshold THEN 255 ELSE 0]

\* createMaskFromForeground: mask[i/4] = alpha > 128 ? 255 : 0
createMaskFromForeground(fg) ==
  [i \in 1..Len(fg) |-> IF fg[i][4] > AlphaThreshold THEN 255 ELSE 0]

\* a text placement that ignores the mask
PlaceText_IgnoresMask(bgData, maskArr, textLayer) ==
  [i \in 1..Len(bgData) |-> IF textLayer[i][4] > 0 THEN textLayer[i] ELSE bgData[i]]

\* Step 5 of renderCompositeImage: text goes where the mask entry is not 255
PlaceText(bgData, maskArr, textLayer) ==
  [i \in 1..Len(bgData) |->
     IF Rd(maskArr, i - 1) # 255 /\ textLayer[i][4] > 0 THEN textLayer[i] ELSE bgData[i]]

\* a draw that replaces the destination pixel (composite operation "copy")
SourceOver_Copy(src, dst) == src

\* canvas source-over of one pixel src onto dst (8-bit channels, straight alpha)
SourceOver(src, dst) ==
  LET sa == src[4]
      da == dst[4]
      oa255 == sa * 255 + da * (255 - sa)
      ch(c) == IF oa255 = 0 THEN 0
               ELSE (src[c] * sa * 255 + dst[c] * da * (255 - sa)) \div oa255
  IN <<ch(1), ch(2), ch(3), oa255 \div 255>>

\* a compositor that draws the cutout before it places the text
CompositeB_CutoutFirst(bgData, maskArr, textLayer, fg) ==
  PlaceText([i \in 1..Len(bgData) |-> SourceOver(fg[i], bgData[i])], maskArr, textLayer)

\* Steps 2, 5 and 6 of renderCompositeImage (Strategy B)
CompositeB(bgData, maskArr, textLayer, fg) ==
  LET withText == PlaceText(bgData, maskArr, textLayer)
  IN [i \in 1..Len(bgData) |-> SourceOver(fg[i], withText[i])]

(***************************************************************************)
(* State                                                                   *)
(***************************************************************************)
VARIABLES
  \* pixel model
  pxOp,        \* which pass has run on the buffers
  pxW, pxH,    \* canvas.width, canvas.height
  imgData,     \* pixels of the original image as drawn on the canvas
  textData,    \* the text layer (textCtx.getImageData)
  textData2,   \* the text layer of a second run on the same image
  fgData,      \* pixels of the foreground cutout
  maskData,    \* the mask (dilatedMask / foregroundMaskRef.current)
  outData,     \* canvas pixels after the pass, first run
  outData2,    \* canvas pixels after the pass, second run
  \* component model: uploads and their asynchronous work
  files,              \* image size <<w, h>> of each file handed to handleImageUpload
  readers,            \* uploads whose FileReader has not completed
  runs,               \* runs of the pipeline effect whose callbacks are outstanding
  \* component model: React state
  image, imageFile, isProcessing, isDragging, showMask, textSettings, canvasSize,
  loadingProgress,
  \* component model: refs
  originalImageRef, foregroundImageRef, foregroundUrlRef, foregroundMaskRef,
  animationFrameRef, dragRAF,
  \* component model: browser queues
  frames,             \* pending requestAnimationFrame callbacks
  timers,             \* pending setTimeout callbacks in firing order
  \* component model: observations
  composite,          \* what the last run of renderCompositeImage drew
  segStarted,         \* number of calls of detectForeground (IMG.LY)
  toggles,            \* number of show-mask toggles
  lastPointer,        \* the last pointer event: down, or up (pointer-up, pointer-leave)
  lastHandled,        \* the last such event that was not a pointer-down while processing
  \* calls of single functions
  fnOp,        \* the function called, "none" before the call
  fnIn,        \* its arguments
  fnOut        \* what it returned

uiVars == <<files, readers, runs, image, imageFile, isProcessing, isDragging, showMask,
            textSettings, canvasSize, originalImageRef, foregroundImageRef,
            foregroundUrlRef, foregroundMaskRef, animationFrameRef, dragRAF, frames,
            timers, composite, segStarted, toggles, lastPointer, lastHandled,
            loadingProgress>>

pxVars == <<pxOp, pxW, pxH, imgData, textData, textData2, fgData, maskData, outData, outData2>>

fnVars == <<fnOp, fnIn, fnOut>>

(***************************************************************************)
(* Bounds of the component model                                           *)
(***************************************************************************)
\* files uploaded in one behaviour
MaxUploads == 2

\* user inputs that change the component's state (uploads, text changes,
\* show-mask toggles) in one behaviour
MaxEvents == 3

\* pipeline runs in flight at a time
MaxRuns == 2

\* 50 ms timers pending at a time
MaxTimers == 2

(***************************************************************************)
(* ImageTextOverlay.tsx: values                                            *)
(***************************************************************************)
\* image size of the k-th file the user uploads: larger than maxDimension,
\* then within it, in turns
FileSize(k) == IF k % 2 = 1 THEN <<2400, 1200>> ELSE <<800, 600>>

\* pointer positions (clientX - rect.left, clientY - rect.top) on a canvas
\* shown RectWidth x RectHeight pixels large; some lie outside the canvas
RectWidth == 200

RectHeight == 100

PointerPositions == { <<-10, 50>>, <<100, 120>> }

NoMask == [file |-> 0, len |-> 0]

NoComposite == [original |-> 0, mask |-> NoMask, cutout |-> 0, width |-> 0, height |-> 0,
                text |-> 0]

maxDimension == 1200

(***************************************************************************)
(* JavaScript numbers.  A positive double is a record [bits, e]: bits are  *)
(* the 53 bits of its significand, highest first (bits[1] = 1), and e is   *)
(* the exponent of bits[1]; its value is the sum of bits[i] * 2^(e-i+1).   *)
(* Division and multiplication round to the nearest double, ties to even.  *)
(***************************************************************************)
SignificandBits == 53

RECURSIVE ShiftUp(_, _, _)
\* the smallest k with n * 2^k >= d
ShiftUp(n, d, k) == IF n >= d THEN k ELSE ShiftUp(2 * n, d, k + 1)

RECURSIVE ShiftDown(_, _, _)
\* the largest k with d * 2^k <= n (d <= n is given)
ShiftDown(n, d, k) == IF 2 * d > n THEN k ELSE ShiftDown(n, 2 * d, k + 1)

RECURSIVE Pow2(_)
Pow2(n) == IF n <= 0 THEN 1 ELSE 2 * Pow2(n - 1)

RECURSIVE BitsOf(_)
\* the binary digits of n >= 0, highest first
BitsOf(n) == IF n = 0 THEN <<>> ELSE Append(BitsOf(n \div 2), n % 2)

RECURSIVE BitsValue(_)
\* the number whose binary digits are bits
BitsValue(bits) ==
  IF bits = <<>> THEN 0
  ELSE 2 * BitsValue(SubSeq(bits, 1, Len(bits) - 1)) + bits[Len(bits)]

RECURSIVE QuotientBits(_, _, _)
\* long division: the next bits of r/d, up to SignificandBits bits, and the
\* remainder
QuotientBits(r, d, bits) ==
  IF Len(bits) = SignificandBits THEN [bits |-> bits, rem |-> r]
  ELSE LET b == IF 2 * r >= d THEN 1 ELSE 0
       IN QuotientBits(2 * r - b * d, d, Append(bits, b))

RECURSIVE IncBits(_)
\* bits + 1, in the same number of digits
IncBits(bits) ==
  LET n == Len(bits)
  IN IF n = 0 THEN <<>>
     ELSE IF bits[n] = 0 THEN [bits EXCEPT ![n] = 1]
     ELSE Append(IncBits(SubSeq(bits, 1, n - 1)), 0)

\* the next double above f
NextDouble(f) ==
  LET inc == IncBits(f.bits)
  IN IF inc[1] = 0
     THEN [bits |-> <<1>> \o SubSeq(inc, 1, SignificandBits - 1), e |-> f.e + 1]
     ELSE [bits |-> inc, e |-> f.e]

\* the double num / den of two positive integers
DivideDouble(num, den) ==
  LET up == ShiftUp(num, den, 0)
      down == ShiftDown(num, den, 0)
      e == IF num >= den THEN down ELSE -up
      n == IF num >= den THEN num ELSE num * Pow2(up)
      d == IF num >= den THEN den * Pow2(down) ELSE den
      q == QuotientBits(n - d, d, <<1>>)
      f == [bits |-> q.bits, e |-> e]
  IN IF 2 * q.rem > d \/ (2 * q.rem = d /\ q.bits[SignificandBits] = 1)
     THEN NextDouble(f) ELSE f

RECURSIVE MulBits(_, _, _, _)
\* the binary digits of k * bits: acc holds the low digits of the product
\* found so far, one for each digit of bits already multiplied
MulBits(k, bits, carry, acc) ==
  IF Len(acc) = Len(bits) THEN BitsOf(carry) \o acc
  ELSE LET t == k * bits[Len(bits) - Len(acc)] + carry
       IN IF t % 2 = 1 THEN MulBits(k, bits, t \div 2, <<1>> \o acc)
          ELSE MulBits(k, bits, t \div 2, <<0>> \o acc)

\* the double k * f of a positive integer k and a double f
MultiplyDouble(k, f) ==
  LET product == MulBits(k, f.bits, 0, <<>>)
      len == Len(product)
      kept == SubSeq(product, 1, SignificandBits)
      dropped == SubSeq(product, SignificandBits + 1, len)
      g == [bits |-> kept, e |-> f.e + (len - SignificandBits)]
      up == /\ dropped # <<>>
            /\ dropped[1] = 1
            /\ \/ \E j \in 2..Len(dropped) : dropped[j] = 1
               \/ kept[SignificandBits] = 1
  IN IF up THEN NextDouble(g) ELSE g

\* Math.floor of a positive double below 2^31
FloorDouble(f) == IF f.e < 0 THEN 0 ELSE BitsValue(SubSeq(f.bits, 1, f.e + 1))

\* const ratio = maxDimension / longer; Math.floor(shorter * ratio)
ScaledEdge(shorter, longer) ==
  FloorDouble(MultiplyDouble(shorter, DivideDouble(maxDimension, longer)))

\* a resize that omits Math.max(1, ...)
ResizedCanvas_NoMinimum(w, h) ==
  LET big == w > maxDimension \/ h > maxDimension
      cw == IF ~big THEN w ELSE IF w > h THEN maxDimension ELSE ScaledEdge(w, h)
      ch == IF ~big THEN h ELSE IF w > h THEN ScaledEdge(h, w) ELSE maxDimension
  IN [width |-> cw, height |-> ch]

\* the canvas size computed in foregroundImg.onload from img.width, img.height
ResizedCanvas(w, h) ==
  LET big == w > maxDimension \/ h > maxDimension
      cw == IF ~big THEN w ELSE IF w > h THEN maxDimension ELSE ScaledEdge(w, h)
      ch == IF ~big THEN h ELSE IF w > h THEN ScaledEdge(h, w) ELSE maxDimension
  IN [width |-> Max2(1, cw), height |-> Max2(1, ch)]

\* the mask detectForeground (IMG.LY) returns for a file: createMaskFromForeground
\* allocates one entry per pixel of the cutout, which has the size of the file's image
MaskOfFile(f) == [file |-> f, len |-> files[f][1] * files[f][2]]

\* updateTextPosition: the percentages of a pointer position, bounded to 0..100
BoundedX(pos) == Max2(0, Min2(100, (pos[1] * 100) \div RectWidth))

\* a vertical bound without Math.min(100, y)
BoundedY_NoUpperBound(pos) == Max2(0, (pos[2] * 100) \div RectHeight)

BoundedY(pos) == Max2(0, Min2(100, (pos[2] * 100) \div RectHeight))

\* a fresh requestAnimationFrame handle: the browser never repeats a handle,
\* so it differs from those still pending and from the one kept in the other
\* ref (the ref it is stored in is overwritten)
NewHandle(pending, otherRef) ==
  LET used == { g.h : g \in pending } \cup { otherRef }
      free == (1..(Cardinality(used) + 1)) \ used
  IN CHOOSE n \in free : \A m \in free : n <= m

\* cancelAnimationFrame(ref) guarded by "if (ref)"
CancelFrame(pending, ref) == { g \in pending : g.h # ref }

\* the pending callbacks that will run renderCompositeImage on behalf of the
\* render scheduling effect: animation frames, and timers set by a frame
\* while dragging
ScheduledFrames == { g \in frames : g.kind \in {"render", "delay"} }

ScheduledTimers == { i \in 1..Len(timers) : timers[i].kind = "render" }

PendingRecompositions == Cardinality(ScheduledFrames) + Cardinality(ScheduledTimers)

\* renderCompositeImage as created by the render with text settings ts and
\* canvas size cs: what it leaves on the canvas
renderCompositeImage(ts, cs) ==
  IF \/ image = 0
     \/ originalImageRef = 0
     \/ foregroundImageRef = 0
     \/ foregroundMaskRef = NoMask
     \/ cs.width <= 0
     \/ cs.height <= 0
  THEN composite
  ELSE [original |-> originalImageRef, mask |-> foregroundMaskRef,
        cutout |-> foregroundImageRef, width |-> cs.width, height |-> cs.height,
        text |-> ts.id]

\* handleMouseDown without the isProcessing test of its guard
MouseDownAccepted_WhileProcessing == image # 0

\* handleMouseDown runs past its guard
MouseDownAccepted == image # 0 /\ ~isProcessing

\* handleMouseMove without the isProcessing test of its guard
MouseMoveAccepted_WhileProcessing == image # 0 /\ isDragging

\* handleMouseMove runs past its guard
MouseMoveAccepted == image # 0 /\ isDragging /\ ~isProcessing

\* the fractions the segmentation collaborator reports, in eighths: 0, 1/8, 1
ProgressEighths == { 0, 1, 8 }

\* detectForeground's adapter: Math.round(progressValue * 100), for the
\* fraction k/8 (a tie is rounded up)
ProgressPercent(k) == (200 * k + 8) \div 16

\* the component's callback: 30 + Math.floor(progress * 0.5)
ProgressShown(percent) == 30 + percent \div 2

\* setLoadingProgress(10) of handleImageUpload
ProgressUploaded == 10

\* setLoadingProgress(20) of the pipeline effect
ProgressDecoding == 20

\* setLoadingProgress(30) of img.onload
ProgressSegmenting == 30

\* setLoadingProgress(90) of foregroundImg.onload
ProgressCutoutLoaded == 90

\* setLoadingProgress(100) of the first-render timer
ProgressDone == 100

\* a pipeline effect that also depends on textSettings
PipelineDeps_WithText(im, f, sm, ts) == <<im, f, sm, ts>>

\* the dependency array of the pipeline effect: [image, imageFile, showMask]
PipelineDeps(im, f, sm, ts) == <<im, f, sm>>

(***************************************************************************)
(* React: a handler's state updates are followed by a render and by the    *)
(* effects whose dependencies changed.  The arguments are the state after  *)
(* the handler's own updates; force tells that the handler stored a new    *)
(* object in a dependency (setCanvasSize, foregroundImageRef.current).     *)
(* progress is the loading progress the handler has set.                   *)
(*   pipeline effect    deps [image, imageFile, showMask]                  *)
(*   scheduling effect  deps [textSettings, renderCompositeImage,          *)
(*                      isProcessing, image, isDragging, canvasSize,       *)
(*                      foregroundImageRef.current]                        *)
(***************************************************************************)
Commit(im, f, sm, ts, proc, drag, cs, fgRef, force, frames0, runs0, progress) ==
  LET pipeChanged == PipelineDeps(im, f, sm, ts) #
                       PipelineDeps(image, imageFile, showMask, textSettings)
      \* the previous run of the pipeline effect returned its cleanup
      pipeCleanup == pipeChanged /\ image # 0 /\ imageFile # 0
      \* the pipeline effect runs past "if (!image || !imageFile) return"
      pipeBody == pipeChanged /\ im # 0 /\ f # 0
      proc2 == proc \/ pipeBody
      schedChanged == \/ force
                      \/ <<ts, proc2, im, drag, cs, fgRef>> #
                           <<textSettings, isProcessing, image, isDragging, canvasSize,
                             foregroundImageRef>>
      frames1 == IF pipeCleanup \/ schedChanged
                 THEN CancelFrame(frames0, animationFrameRef)
                 ELSE frames0
      schedule == /\ schedChanged
                  /\ im # 0
                  /\ ~proc2
                  /\ cs.width # 0
                  /\ cs.height # 0
                  /\ fgRef # 0
      h == NewHandle(frames1, dragRAF)
  IN /\ image' = im
     /\ imageFile' = f
     /\ showMask' = sm
     /\ textSettings' = ts
     /\ isProcessing' = proc2
     /\ isDragging' = drag
     /\ canvasSize' = cs
     \* the pipeline effect runs after the handler: setLoadingProgress(20)
     /\ loadingProgress' = IF pipeBody THEN ProgressDecoding ELSE progress
     /\ foregroundImageRef' = fgRef
     /\ frames' = IF schedule
                  THEN frames1 \cup { [h |-> h, kind |-> IF drag THEN "delay" ELSE "render",
                                       ts |-> ts, cs |-> cs, pos |-> <<0, 0>>] }
                  ELSE frames1
     /\ animationFrameRef' = IF schedule THEN h ELSE animationFrameRef
     /\ runs' = IF pipeBody
                THEN Append(runs0, [img |-> im, file |-> f, sm |-> sm, ts |-> ts, cs |-> cs,
                                    phase |-> "decoding"])
                ELSE runs0

\* the state of the component after construction
InitComponent ==
  /\ files = <<>>
  /\ readers = {}
  /\ runs = <<>>
  /\ image = 0
  /\ imageFile = 0
  /\ isProcessing = FALSE
  /\ isDragging = FALSE
  /\ showMask = FALSE
  /\ textSettings = [id |-> 0, x |-> 50, y |-> 50]
  /\ canvasSize = [width |-> 0, height |-> 0]
  /\ loadingProgress = 0
  /\ originalImageRef = 0
  /\ foregroundImageRef = 0
  /\ foregroundUrlRef = 0
  /\ foregroundMaskRef = NoMask
  /\ animationFrameRef = 0
  /\ dragRAF = 0
  /\ frames = {}
  /\ timers = <<>>
  /\ composite = NoComposite
  /\ segStarted = 0
  /\ toggles = 0
  /\ lastPointer = "none"
  /\ lastHandled = "none"

\* no single function has been called
InitNoCall ==
  /\ fnOp = "none"
  /\ fnIn = <<>>
  /\ fnOut = <<>>

\* no pixel pass is running
InitBuffers ==
  /\ pxOp = "none"
  /\ pxW = 0
  /\ pxH = 0
  /\ imgData = <<>>
  /\ textData = <<>>
  /\ textData2 = <<>>
  /\ fgData = <<>>
  /\ maskData = <<>>
  /\ outData = <<>>
  /\ outData2 = <<>>

(***************************************************************************)
(* Input families of the pixel model                                       *)
(***************************************************************************)
\* images of width x height pixels: one colour, optionally with an
\* axis-parallel rectangle of another colour
Images(width, height) ==
  IF width * height = 0 THEN { <<>> }
  ELSE
    { [i \in 1..(width * height) |->
         LET x == (i - 1) % width
             y == (i - 1) \div width
         IN IF x >= r[1] /\ x <= r[2] /\ y >= r[3] /\ y <= r[4] THEN c[2] ELSE c[1]] :
        c \in ImgPalette \X ImgPalette,
        r \in { q \in (0..(width - 1)) \X (0..(width - 1)) \X (0..(height - 1)) \X (0..(height - 1)) :
                  q[1] <= q[2] /\ q[3] <= q[4] } }

\* text layers of n pixels: no glyph pixel, or glyph pixels on all, even or
\* odd indices
TextLayers(n) ==
  { [i \in 1..n |-> Transparent],
    [i \in 1..n |-> <<10, 20, 30, 255>>],
    [i \in 1..n |-> IF (i - 1) % 2 = 0 THEN <<200, 100, 50, 128>> ELSE Transparent],
    [i \in 1..n |-> IF (i - 1) % 2 = 1 THEN <<10, 20, 30, 255>> ELSE Transparent] }

\* the text layers of the second run
TextLayers2(n) ==
  { [i \in 1..n |-> Transparent], [i \in 1..n |-> <<1, 2, 3, 255>>] }

\* cutouts of n pixels
Cutouts(n) ==
  { [i \in 1..n |-> IF (i - 1) % 2 = 0 THEN a ELSE b] : a \in CutoutPalette, b \in CutoutPalette }

\* masks handed to the compositor: no, one or only foreground entries, of
\* the canvas' pixel count or one entry short; a stored mask has one entry
\* per pixel of a decoded cutout and so at least one entry
Masks(n) ==
  { [i \in 1..len |-> IF S = {-1} \/ (i - 1) \in S THEN 255 ELSE 0] :
      len \in { n, Max2(n - 1, 1) }, S \in { {a} : a \in -2..(n - 1) } }

InitEdge ==
  /\ pxOp = "inputEdge"
  /\ pxW \in 0..MaxW
  /\ pxH \in 0..MaxH
  /\ imgData \in Images(pxW, pxH)
  /\ textData \in TextLayers(pxW * pxH)
  /\ textData2 \in TextLayers2(pxW * pxH)
  /\ fgData = <<>>
  /\ maskData = <<>>
  /\ outData = <<>>
  /\ outData2 = <<>>
  /\ InitComponent
  /\ InitNoCall

InitCutout ==
  /\ pxOp = "inputCutout"
  /\ pxW \in 1..MaxBW
  /\ pxH \in 1..MaxBH
  /\ imgData \in Images(pxW, pxH)
  /\ textData \in TextLayers(pxW * pxH)
  /\ textData2 \in TextLayers2(pxW * pxH)
  /\ fgData \in Cutouts(pxW * pxH)
  /\ maskData \in Masks(pxW * pxH)
  /\ outData = <<>>
  /\ outData2 = <<>>
  /\ InitComponent
  /\ InitNoCall

(***************************************************************************)
(* Actions of the pixel model                                              *)
(***************************************************************************)
\* an early return with a mask of one entry
EmptyMask_OneEntry == <<0>>

\* new Uint8ClampedArray(0)
EmptyMask == <<>>

\* detectForeground(canvas, image, textSettings, returnMaskOnly, fastMode),
\* run twice on the same canvas size and image with two text layers
detectForegroundCanvas(returnMaskOnly, fastMode, ctxOk) ==
  /\ pxOp = "inputEdge"
  /\ IF pxW <= 0 \/ pxH <= 0 \/ ~ctxOk \/ Len(imgData) = 0
     THEN /\ maskData' = EmptyMask
          /\ outData' = <<>>
          /\ outData2' = <<>>
          /\ pxOp' = "edgeEmpty"
     ELSE LET mask == EdgeMask(imgData, pxW, pxH, fastMode)
              dilatedMask == dilate(mask, pxW, pxH, DilateIterations(fastMode))
          IN /\ maskData' = dilatedMask
             /\ outData' = IF returnMaskOnly THEN imgData
                           ELSE CompositeA(imgData, dilatedMask, textData)
             /\ outData2' = IF returnMaskOnly THEN imgData
                            ELSE CompositeA(imgData, dilatedMask, textData2)
             /\ pxOp' = IF returnMaskOnly
                        THEN (IF fastMode THEN "edgeFastMask" ELSE "edgeStdMask")
                        ELSE (IF fastMode THEN "edgeFast" ELSE "edgeStd")
  /\ UNCHANGED <<pxW, pxH, imgData, textData, textData2, fgData>>
  /\ UNCHANGED uiVars
  /\ UNCHANGED fnVars

\* createMaskFromForeground on the cutout, stored in foregroundMaskRef
AlphaMask ==
  /\ pxOp = "inputCutout"
  /\ maskData' = createMaskFromForeground(fgData)
  /\ pxOp' = "alphaMask"
  /\ UNCHANGED <<pxW, pxH, imgData, textData, textData2, fgData, outData, outData2>>
  /\ UNCHANGED uiVars
  /\ UNCHANGED fnVars

\* the compositing steps of renderCompositeImage with the mask in
\* foregroundMaskRef, run twice with two text layers
RenderB ==
  /\ pxOp \in {"inputCutout", "alphaMask"}
  /\ outData' = CompositeB(imgData, maskData, textData, fgData)
  /\ outData2' = CompositeB(imgData, maskData, textData2, fgData)
  /\ pxOp' = IF pxOp = "alphaMask" THEN "compositeBAlpha" ELSE "compositeB"
  /\ UNCHANGED <<pxW, pxH, imgData, textData, textData2, fgData, maskData>>
  /\ UNCHANGED uiVars
  /\ UNCHANGED fnVars

vars == <<pxVars, uiVars, fnVars>>

InitPixel == InitEdge \/ InitCutout

NextPixel ==
  \/ \E returnMaskOnly \in BOOLEAN, fastMode \in BOOLEAN, ctxOk \in BOOLEAN :
       detectForegroundCanvas(returnMaskOnly, fastMode, ctxOk)
  \/ AlphaMask
  \/ RenderB

SpecPixel == InitPixel /\ [][NextPixel]_vars

(***************************************************************************)
(* ImageTextOverlay.tsx: handlers and callbacks                            *)
(***************************************************************************)
RemoveAt(seq, i) == [j \in 1..(Len(seq) - 1) |-> IF j < i THEN seq[j] ELSE seq[j + 1]]

MoveFrames == { g \in frames : g.kind = "move" }

\* user inputs the model still admits; a pending move frame is a text change
\* to come
EventsLeft(pending) ==
  MaxEvents - Len(files) - toggles - textSettings.id -
    Cardinality({ g \in pending : g.kind = "move" })

\* handleImageUpload(file), from the file input or from handleDrop
handleImageUpload ==
  /\ Len(files) < MaxUploads
  /\ EventsLeft(frames) > 0
  /\ Len(runs) < MaxRuns
  /\ files' = Append(files, FileSize(Len(files) + 1))
  /\ readers' = readers \cup { Len(files) + 1 }
  /\ foregroundMaskRef' = NoMask
  /\ originalImageRef' = 0
  /\ foregroundUrlRef' = 0
  /\ Commit(image, Len(files) + 1, showMask, textSettings, TRUE, isDragging, canvasSize,
            0, FALSE, frames, runs,
            ProgressUploaded)
  /\ UNCHANGED <<dragRAF, timers, composite, segStarted, toggles, lastPointer, lastHandled>>
  /\ UNCHANGED pxVars
  /\ UNCHANGED fnVars

\* reader.onload: setImage(data URL of the file)
ReaderOnLoad(id) ==
  /\ id \in readers
  /\ Len(runs) < MaxRuns
  /\ readers' = readers \ {id}
  /\ Commit(id, imageFile, showMask, textSettings, isProcessing, isDragging, canvasSize,
            foregroundImageRef, FALSE, frames, runs,
            loadingProgress)
  /\ UNCHANGED <<files, originalImageRef, foregroundUrlRef, foregroundMaskRef, dragRAF,
                 timers, composite, segStarted, toggles, lastPointer, lastHandled>>
  /\ UNCHANGED pxVars
  /\ UNCHANGED fnVars

\* reader.onerror: setIsProcessing(false)
ReaderOnError(id) ==
  /\ id \in readers
  /\ readers' = readers \ {id}
  /\ Commit(image, imageFile, showMask, textSettings, FALSE, isDragging, canvasSize,
            foregroundImageRef, FALSE, frames, runs,
            loadingProgress)
  /\ UNCHANGED <<files, originalImageRef, foregroundUrlRef, foregroundMaskRef, dragRAF,
                 timers, composite, segStarted, toggles, lastPointer, lastHandled>>
  /\ UNCHANGED pxVars
  /\ UNCHANGED fnVars

\* img.onload of a pipeline run, up to the await: the original image is
\* stored and detectForeground(imageFile, ...) is called
ImgOnLoad(i) ==
  /\ i \in 1..Len(runs)
  /\ runs[i].phase = "decoding"
  /\ originalImageRef' = runs[i].img
  /\ segStarted' = segStarted + 1
  /\ loadingProgress' = ProgressSegmenting
  /\ runs' = [runs EXCEPT ![i].phase = "segmenting"]
  /\ UNCHANGED <<files, readers, image, imageFile, isProcessing, isDragging, showMask,
                 textSettings, canvasSize, foregroundImageRef, foregroundUrlRef,
                 foregroundMaskRef, animationFrameRef, dragRAF, frames, timers, composite,
                 toggles, lastPointer, lastHandled>>
  /\ UNCHANGED pxVars
  /\ UNCHANGED fnVars

\* the three failure paths of a pipeline run: img.onerror, the catch around
\* detectForeground (no mask or no foregroundUrl), foregroundImg.onerror
RunFails(i) ==
  /\ i \in 1..Len(runs)
  /\ Commit(image, imageFile, showMask, textSettings, FALSE, isDragging, canvasSize,
            foregroundImageRef, FALSE, frames, RemoveAt(runs, i),
            loadingProgress)
  /\ UNCHANGED <<files, readers, originalImageRef, foregroundUrlRef, foregroundMaskRef,
                 dragRAF, timers, composite, segStarted, toggles, lastPointer, lastHandled>>
  /\ UNCHANGED pxVars
  /\ UNCHANGED fnVars

\* img.onload after the await, detectForeground succeeded: the mask and the
\* cutout URL are stored and the cutout image starts loading
SegmentationDone(i) ==
  /\ i \in 1..Len(runs)
  /\ runs[i].phase = "segmenting"
  /\ foregroundMaskRef' = MaskOfFile(runs[i].file)
  /\ foregroundUrlRef' = runs[i].file
  /\ runs' = [runs EXCEPT ![i].phase = "cutoutLoading"]
  /\ UNCHANGED <<files, readers, image, imageFile, isProcessing, isDragging, showMask,
                 textSettings, canvasSize, originalImageRef, foregroundImageRef,
                 animationFrameRef, dragRAF, frames, timers, composite, segStarted,
                 toggles, lastPointer, lastHandled,
                 loadingProgress>>
  /\ UNCHANGED pxVars
  /\ UNCHANGED fnVars

\* the progress callback handed to detectForeground, called while the
\* segmentation of a pipeline run is in progress with the fraction k/8
SegmentationProgress(i, k) ==
  /\ i \in 1..Len(runs)
  /\ runs[i].phase = "segmenting"
  /\ loadingProgress' = ProgressShown(ProgressPercent(k))
  /\ UNCHANGED <<files, readers, runs, image, imageFile, isProcessing, isDragging, showMask,
                 textSettings, canvasSize, originalImageRef, foregroundImageRef,
                 foregroundUrlRef, foregroundMaskRef, animationFrameRef, dragRAF, frames,
                 timers, composite, segStarted, toggles, lastPointer, lastHandled>>
  /\ UNCHANGED pxVars
  /\ UNCHANGED fnVars

\* foregroundImg.onload: the cutout is stored, the canvas is sized from the
\* run's img and the first render is set to run after 50 ms
ForegroundOnLoad(i) ==
  /\ i \in 1..Len(runs)
  /\ runs[i].phase = "cutoutLoading"
  /\ Len(timers) < MaxTimers
  /\ timers' = Append(timers, [kind |-> "first", ts |-> runs[i].ts, cs |-> runs[i].cs])
  /\ Commit(image, imageFile, showMask, textSettings, isProcessing, isDragging,
            ResizedCanvas(files[runs[i].img][1], files[runs[i].img][2]),
            runs[i].file, TRUE, frames, RemoveAt(runs, i),
            ProgressCutoutLoaded)
  /\ UNCHANGED <<files, readers, originalImageRef, foregroundUrlRef, foregroundMaskRef,
                 dragRAF, composite, segStarted, toggles, lastPointer, lastHandled>>
  /\ UNCHANGED pxVars
  /\ UNCHANGED fnVars

\* a first render whose timer does not call setIsProcessing(false)
FirstRenderTimer_KeepsProcessing ==
  /\ timers # <<>>
  /\ Head(timers).kind = "first"
  /\ composite' = renderCompositeImage(Head(timers).ts, Head(timers).cs)
  /\ timers' = Tail(timers)
  /\ Commit(image, imageFile, showMask, textSettings, isProcessing, isDragging, canvasSize,
            foregroundImageRef, FALSE, frames, runs,
            ProgressDone)
  /\ UNCHANGED <<files, readers, originalImageRef, foregroundUrlRef, foregroundMaskRef,
                 dragRAF, segStarted, toggles, lastPointer, lastHandled>>
  /\ UNCHANGED pxVars
  /\ UNCHANGED fnVars

\* the 50 ms timer of foregroundImg.onload: renderCompositeImage();
\* setIsProcessing(false)
FirstRenderTimer ==
  /\ timers # <<>>
  /\ Head(timers).kind = "first"
  /\ composite' = renderCompositeImage(Head(timers).ts, Head(timers).cs)
  /\ timers' = Tail(timers)
  /\ Commit(image, imageFile, showMask, textSettings, FALSE, isDragging, canvasSize,
            foregroundImageRef, FALSE, frames, runs,
            ProgressDone)
  /\ UNCHANGED <<files, readers, originalImageRef, foregroundUrlRef, foregroundMaskRef,
                 dragRAF, segStarted, toggles, lastPointer, lastHandled>>
  /\ UNCHANGED pxVars
  /\ UNCHANGED fnVars

\* the 50 ms timer set by an animation frame while dragging
DragRenderTimer ==
  /\ timers # <<>>
  /\ Head(timers).kind = "render"
  /\ composite' = renderCompositeImage(Head(timers).ts, Head(timers).cs)
  /\ timers' = Tail(timers)
  /\ UNCHANGED <<files, readers, runs, image, imageFile, isProcessing, isDragging, showMask,
                 textSettings, canvasSize, originalImageRef, foregroundImageRef,
                 foregroundUrlRef, foregroundMaskRef, animationFrameRef, dragRAF, frames,
                 segStarted, toggles, lastPointer, lastHandled,
                 loadingProgress>>
  /\ UNCHANGED pxVars
  /\ UNCHANGED fnVars

\* an animation frame runs requestAnimationFrame(renderCompositeImage)
RenderFrame(g) ==
  /\ g \in frames
  /\ g.kind = "render"
  /\ composite' = renderCompositeImage(g.ts, g.cs)
  /\ frames' = frames \ {g}
  /\ UNCHANGED <<files, readers, runs, image, imageFile, isProcessing, isDragging, showMask,
                 textSettings, canvasSize, originalImageRef, foregroundImageRef,
                 foregroundUrlRef, foregroundMaskRef, animationFrameRef, dragRAF, timers,
                 segStarted, toggles, lastPointer, lastHandled,
                 loadingProgress>>
  /\ UNCHANGED pxVars
  /\ UNCHANGED fnVars

\* an animation frame runs () => setTimeout(renderCompositeImage, 50)
DelayFrame(g) ==
  /\ g \in frames
  /\ g.kind = "delay"
  /\ Len(timers) < MaxTimers
  /\ timers' = Append(timers, [kind |-> "render", ts |-> g.ts, cs |-> g.cs])
  /\ frames' = frames \ {g}
  /\ UNCHANGED <<files, readers, runs, image, imageFile, isProcessing, isDragging, showMask,
                 textSettings, canvasSize, originalImageRef, foregroundImageRef,
                 foregroundUrlRef, foregroundMaskRef, animationFrameRef, dragRAF, composite,
                 segStarted, toggles, lastPointer, lastHandled,
                 loadingProgress>>
  /\ UNCHANGED pxVars
  /\ UNCHANGED fnVars

\* an animation frame runs () => updateTextPosition(e)
MoveFrame(g) ==
  /\ g \in frames
  /\ g.kind = "move"
  /\ Commit(image, imageFile, showMask,
            [id |-> textSettings.id + 1, x |-> BoundedX(g.pos), y |-> BoundedY(g.pos)],
            isProcessing, isDragging, canvasSize, foregroundImageRef, FALSE,
            frames \ {g}, runs,
            loadingProgress)
  /\ UNCHANGED <<files, readers, originalImageRef, foregroundUrlRef, foregroundMaskRef,
                 dragRAF, timers, composite, segStarted, toggles, lastPointer, lastHandled>>
  /\ UNCHANGED pxVars
  /\ UNCHANGED fnVars

\* onMouseDown of the canvas
handleMouseDown(pos) ==
  /\ image # 0
  /\ lastPointer' = "down"
  /\ lastHandled' = IF isProcessing THEN lastHandled ELSE "down"
  /\ IF MouseDownAccepted
     THEN /\ EventsLeft(frames) > 0
          /\ Commit(image, imageFile, showMask,
                    [id |-> textSettings.id + 1, x |-> BoundedX(pos), y |-> BoundedY(pos)],
                    isProcessing, TRUE, canvasSize, foregroundImageRef, FALSE, frames, runs,
            loadingProgress)
     ELSE UNCHANGED <<image, imageFile, showMask, textSettings, isProcessing, isDragging,
                      canvasSize, foregroundImageRef, frames, animationFrameRef, runs,
                      loadingProgress>>
  /\ UNCHANGED <<files, readers, originalImageRef, foregroundUrlRef, foregroundMaskRef,
                 dragRAF, timers, composite, segStarted, toggles>>
  /\ UNCHANGED pxVars
  /\ UNCHANGED fnVars

\* onMouseMove of the canvas, past its guard
handleMouseMove(pos) ==
  /\ MouseMoveAccepted
  /\ LET kept == CancelFrame(frames, dragRAF)
         h == NewHandle(kept, animationFrameRef)
     IN /\ EventsLeft(kept) > 0
        /\ frames' = kept \cup { [h |-> h, kind |-> "move", ts |-> textSettings,
                                  cs |-> canvasSize, pos |-> pos] }
        /\ dragRAF' = h
  /\ UNCHANGED <<files, readers, runs, image, imageFile, isProcessing, isDragging, showMask,
                 textSettings, canvasSize, originalImageRef, foregroundImageRef,
                 foregroundUrlRef, foregroundMaskRef, animationFrameRef, timers, composite,
                 segStarted, toggles, lastPointer, lastHandled,
                 loadingProgress>>
  /\ UNCHANGED pxVars
  /\ UNCHANGED fnVars

\* onMouseUp and onMouseLeave of the canvas (both are bound to handleMouseUp)
handleMouseUp ==
  /\ image # 0
  /\ lastPointer' = "up"
  /\ lastHandled' = "up"
  /\ Commit(image, imageFile, showMask, textSettings, isProcessing, FALSE, canvasSize,
            foregroundImageRef, FALSE, CancelFrame(frames, dragRAF), runs,
            loadingProgress)
  /\ UNCHANGED <<files, readers, originalImageRef, foregroundUrlRef, foregroundMaskRef,
                 dragRAF, timers, composite, segStarted, toggles>>
  /\ UNCHANGED pxVars
  /\ UNCHANGED fnVars

\* TextEditor: handleContentChange, handleFontChange, handleSizeChange,
\* handleColorChange (disabled while processing)
TextEdit ==
  /\ ~isProcessing
  /\ EventsLeft(frames) > 0
  /\ Commit(image, imageFile, showMask, [textSettings EXCEPT !.id = @ + 1], isProcessing,
            isDragging, canvasSize, foregroundImageRef, FALSE, frames, runs,
            loadingProgress)
  /\ UNCHANGED <<files, readers, originalImageRef, foregroundUrlRef, foregroundMaskRef,
                 dragRAF, timers, composite, segStarted, toggles, lastPointer, lastHandled>>
  /\ UNCHANGED pxVars
  /\ UNCHANGED fnVars

\* values of the position sliders (type="range" min="0" max="100")
SliderValues == { 25, 100 }

\* TextEditor: handlePositionChange(axis, value) (disabled while processing)
handlePositionChange(axis, value) ==
  /\ ~isProcessing
  /\ EventsLeft(frames) > 0
  /\ Commit(image, imageFile, showMask,
            [textSettings EXCEPT !.id = @ + 1, ![axis] = value], isProcessing,
            isDragging, canvasSize, foregroundImageRef, FALSE, frames, runs,
            loadingProgress)
  /\ UNCHANGED <<files, readers, originalImageRef, foregroundUrlRef, foregroundMaskRef,
                 dragRAF, timers, composite, segStarted, toggles, lastPointer, lastHandled>>
  /\ UNCHANGED pxVars
  /\ UNCHANGED fnVars

\* the "Show Foreground Mask" checkbox (disabled while processing or without image)
ToggleShowMask ==
  /\ image # 0
  /\ ~isProcessing
  /\ EventsLeft(frames) > 0
  /\ Len(runs) < MaxRuns
  /\ toggles' = toggles + 1
  /\ Commit(image, imageFile, ~showMask, textSettings, isProcessing, isDragging, canvasSize,
            foregroundImageRef, FALSE, frames, runs,
            loadingProgress)
  /\ UNCHANGED <<files, readers, originalImageRef, foregroundUrlRef, foregroundMaskRef,
                 dragRAF, timers, composite, segStarted, lastPointer, lastHandled>>
  /\ UNCHANGED pxVars
  /\ UNCHANGED fnVars

Init == InitComponent /\ InitBuffers /\ InitNoCall

Next ==
  \/ handleImageUpload
  \/ \E id \in readers : ReaderOnLoad(id)
  \/ \E id \in readers : ReaderOnError(id)
  \/ \E i \in 1..Len(runs) : ImgOnLoad(i)
  \/ \E i \in 1..Len(runs) : RunFails(i)
  \/ \E i \in 1..Len(runs), k \in ProgressEighths : SegmentationProgress(i, k)
  \/ \E i \in 1..Len(runs) : SegmentationDone(i)
  \/ \E i \in 1..Len(runs) : ForegroundOnLoad(i)
  \/ FirstRenderTimer
  \/ DragRenderTimer
  \/ \E g \in frames : RenderFrame(g)
  \/ \E g \in frames : DelayFrame(g)
  \/ \E g \in frames : MoveFrame(g)
  \/ \E pos \in PointerPositions : handleMouseDown(pos)
  \/ \E pos \in PointerPositions : handleMouseMove(pos)
  \/ handleMouseUp
  \/ TextEdit
  \/ \E axis \in {"x", "y"}, value \in SliderValues : handlePositionChange(axis, value)
  \/ ToggleShowMask

Spec == Init /\ [][Next]_vars

\* the callbacks the browser runs on its own: file readers and image decodes
\* complete or fail, the segmentation collaborator settles, timers and
\* animation frames fire
Completion ==
  \/ \E id \in readers : ReaderOnLoad(id)
  \/ \E id \in readers : ReaderOnError(id)
  \/ \E i \in 1..Len(runs) : ImgOnLoad(i)
  \/ \E i \in 1..Len(runs) : RunFails(i)
  \/ \E i \in 1..Len(runs) : SegmentationDone(i)
  \/ \E i \in 1..Len(runs) : ForegroundOnLoad(i)
  \/ FirstRenderTimer
  \/ DragRenderTimer
  \/ \E g \in frames : RenderFrame(g)
  \/ \E g \in frames : DelayFrame(g)
  \/ \E g \in frames : MoveFrame(g)

\* the component with every pending callback eventually run
SpecLive == Init /\ [][Next]_vars /\ WF_vars(Completion)

(***************************************************************************)
(* Single functions called on bounded arguments                            *)
(***************************************************************************)
\* masks of len entries of which at most two are 255, the others 0
SparseMasks(len) ==
  { [i \in 1..len |-> IF i = a[1] \/ i = a[2] THEN 255 ELSE 0] :
      a \in (0..len) \X (0..len) }

\* arguments of dilate: any width and height, a mask of width x height
\* entries, or one entry more or less
InitDilate ==
  /\ fnOp = "dilateArgs"
  /\ \E width \in -1..MaxMaskW, height \in -1..MaxMaskH, d \in -1..1, n \in 0..MaxIterations :
       /\ width * height + d >= 0
       /\ \E data \in SparseMasks(width * height + d) :
            fnIn = [data |-> data, width |-> width, height |-> height, iterations |-> n]
  /\ fnOut = <<>>
  /\ InitComponent
  /\ InitBuffers

\* dilate(data, width, height, iterations), and the same call with one
\* iteration more
CallDilate ==
  /\ fnOp = "dilateArgs"
  /\ fnOp' = "dilate"
  /\ fnOut' = [result |-> dilate(fnIn.data, fnIn.width, fnIn.height, fnIn.iterations),
                more |-> dilate(fnIn.data, fnIn.width, fnIn.height, fnIn.iterations + 1)]
  /\ UNCHANGED fnIn
  /\ UNCHANGED pxVars
  /\ UNCHANGED uiVars

\* colours whose gradients lie on both sides of the standard threshold: a
\* single corner neighbour of colour sum 107 gives the magnitude 50.44, one
\* of sum 151 gives 71.2; a left or right neighbour of sum 75 gives 50
SobelPalette == { <<107, 0, 0, 255>>, <<0, 75, 0, 255>>, <<0, 0, 151, 255>>, <<25, 25, 25, 255>> }

\* images of width x height black pixels of which at most two have a colour
\* of the palette
SpotImages(width, height, palette) ==
  { [i \in 1..(width * height) |->
       IF i = a[1] THEN c[1] ELSE IF i = a[2] THEN c[2] ELSE <<0, 0, 0, 255>>] :
      a \in (0..(width * height)) \X (0..(width * height)), c \in palette \X palette }

\* arguments of standard edge detection
InitSobel ==
  /\ fnOp = "edgeArgs"
  /\ \E width \in 1..MaxSobelW, height \in 1..MaxSobelH :
       \E data \in SpotImages(width, height, SobelPalette) :
         fnIn = [data |-> data, width |-> width, height |-> height, fastMode |-> FALSE]
  /\ fnOut = <<>>
  /\ InitComponent
  /\ InitBuffers

\* colours whose differences to black are 30 and 31, the two sides of the
\* fast threshold
FastPalette == { <<10, 10, 10, 255>>, <<10, 10, 11, 255>> }

\* arguments of fast edge detection
InitFast ==
  /\ fnOp = "edgeArgs"
  /\ \E width \in 1..MaxFastW, height \in 1..MaxFastH :
       \E data \in SpotImages(width, height, FastPalette) :
         fnIn = [data |-> data, width |-> width, height |-> height, fastMode |-> TRUE]
  /\ fnOut = <<>>
  /\ InitComponent
  /\ InitBuffers

\* Step 3 of gradient-edge detectForeground: the mask before dilation
CallEdgeMask ==
  /\ fnOp = "edgeArgs"
  /\ fnOp' = IF fnIn.fastMode THEN "fastEdge" ELSE "sobelEdge"
  /\ fnOut' = [mask |-> EdgeMask(fnIn.data, fnIn.width, fnIn.height, fnIn.fastMode)]
  /\ UNCHANGED fnIn
  /\ UNCHANGED pxVars
  /\ UNCHANGED uiVars

\* cutout pixels: alpha values around the threshold, two colours
AlphaPalette ==
  { <<c[1], c[2], c[3], a>> :
      c \in { <<0, 0, 0>>, <<255, 10, 200>> }, a \in {0, 127, 128, 129, 200, 255} }

\* arguments of createMaskFromForeground: the pixels of the loaded cutout
InitAlpha ==
  /\ fnOp = "alphaArgs"
  /\ \E n \in 0..MaxCutoutLen : \E fg \in [1..n -> AlphaPalette] : fnIn = [fg |-> fg]
  /\ fnOut = <<>>
  /\ InitComponent
  /\ InitBuffers

\* createMaskFromForeground on the cutout, and on the cutout with its
\* colours replaced by black
CallCreateMask ==
  /\ fnOp = "alphaArgs"
  /\ fnOp' = "alphaMask"
  /\ fnOut' = [mask |-> createMaskFromForeground(fnIn.fg),
                black |-> createMaskFromForeground(
                            [i \in 1..Len(fnIn.fg) |-> <<0, 0, 0, fnIn.fg[i][4]>>])]
  /\ UNCHANGED fnIn
  /\ UNCHANGED pxVars
  /\ UNCHANGED uiVars

\* one specification per function: its arguments, then the call
SpecDilate == InitDilate /\ [][CallDilate]_vars

SpecSobel == InitSobel /\ [][CallEdgeMask]_vars

SpecFast == InitFast /\ [][CallEdgeMask]_vars

SpecAlpha == InitAlpha /\ [][CallCreateMask]_vars

\* img.width and img.height of the decoded upload: every edge up to
\* MaxSmallEdge, and edges around and above maxDimension
ImageEdges ==
  (1..MaxSmallEdge) \cup
  { 600, 800, 1199, 1200, 1201, 1760, 2350, 2400, 3000, 4656, 5000 }

InitResize ==
  /\ fnOp = "resizeArgs"
  /\ \E w \in ImageEdges, h \in ImageEdges : fnIn = [width |-> w, height |-> h]
  /\ fnOut = <<>>
  /\ InitComponent
  /\ InitBuffers

\* the canvas size computation of foregroundImg.onload
CallResize ==
  /\ fnOp = "resizeArgs"
  /\ fnOp' = "resized"
  /\ fnOut' = ResizedCanvas(fnIn.width, fnIn.height)
  /\ UNCHANGED fnIn
  /\ UNCHANGED pxVars
  /\ UNCHANGED uiVars

SpecResize == InitResize /\ [][CallResize]_vars

\* text layout: positions are kept in hundredths of a pixel, which holds
\* x / 100 * width, size * 1.2 and the halves of (index - n / 2 + 0.5) exactly
LineBreak == "\n"

RECURSIVE split(_)
\* content.split('\n'): the pieces between the line breaks, empty ones kept
split(content) ==
  IF \A k \in 1..Len(content) : content[k] # LineBreak THEN <<content>>
  ELSE LET k == CHOOSE j \in 1..Len(content) :
                  /\ content[j] = LineBreak
                  /\ \A l \in 1..(j - 1) : content[l] # LineBreak
       IN <<SubSeq(content, 1, k - 1)>> \o split(SubSeq(content, k + 1, Len(content)))

\* a layout that omits the + 0.5 of the line offset
fillTextCalls_NoHalfLine(content, size, textX, textY) ==
  LET lines == split(content)
      lineHeight == size * 120
  IN [j \in 1..Len(lines) |->
        [text |-> lines[j], x |-> textX,
         y |-> textY + ((2 * (j - 1) - Len(lines)) * lineHeight) \div 2]]

\* lines.forEach((line, index) => fillText(line, textX,
\*   textY + (index - lines.length / 2 + 0.5) * lineHeight)), index = j - 1
fillTextCalls(content, size, textX, textY) ==
  LET lines == split(content)
      lineHeight == size * 120
  IN [j \in 1..Len(lines) |->
        [text |-> lines[j], x |-> textX,
         y |-> textY + ((2 * (j - 1) - Len(lines) + 1) * lineHeight) \div 2]]

\* the text drawn by renderCompositeImage on a width x height canvas
renderCompositeText(ts, width, height) ==
  fillTextCalls(ts.content, ts.size, ts.x * width, ts.y * height)

\* the text drawn by the gradient-edge detectForeground
detectForegroundText(ts, width, height) ==
  fillTextCalls(ts.content, ts.size, ts.x * width, ts.y * height)

\* text contents of up to MaxContentLen characters
Contents ==
  UNION { [1..n -> {"A", "B", LineBreak}] : n \in 0..MaxContentLen }

InitLayout ==
  /\ fnOp = "layoutArgs"
  /\ \E content \in Contents, size \in {8, 10, 13},
        x \in {0, 37, 100}, y \in {0, 50},
        cs \in {<<4, 3>>, <<1200, 800>>} :
       fnIn = [ts |-> [content |-> content, size |-> size, x |-> x, y |-> y],
               width |-> cs[1], height |-> cs[2]]
  /\ fnOut = <<>>
  /\ InitComponent
  /\ InitBuffers

\* the fillText calls of both text layouts for the same settings and canvas
CallLayout ==
  /\ fnOp = "layoutArgs"
  /\ fnOp' = "laidOut"
  /\ fnOut' = [render |-> renderCompositeText(fnIn.ts, fnIn.width, fnIn.height),
                detect |-> detectForegroundText(fnIn.ts, fnIn.width, fnIn.height)]
  /\ UNCHANGED fnIn
  /\ UNCHANGED pxVars
  /\ UNCHANGED uiVars

SpecLayout == InitLayout /\ [][CallLayout]_vars

\* the colours of single-colour images: red, white, black, a grey and a
\* half-transparent colour
UniformPalette ==
  { <<255, 0, 0, 255>>, <<255, 255, 255, 255>>, <<0, 0, 0, 255>>,
    <<17, 17, 17, 255>>, <<90, 200, 40, 128>> }

\* arguments of gradient-edge detection on an image of one colour
InitUniform ==
  /\ fnOp = "uniformArgs"
  /\ \E width \in 1..MaxUniformW, height \in 1..MaxUniformH, c \in UniformPalette,
        fastMode \in BOOLEAN, iterations \in 0..MaxIterations :
       fnIn = [data |-> [i \in 1..(width * height) |-> c], width |-> width,
               height |-> height, fastMode |-> fastMode, iterations |-> iterations]
  /\ fnOut = <<>>
  /\ InitComponent
  /\ InitBuffers

\* Steps 3 and 4 of gradient-edge detectForeground: the mask before and
\* after dilate
CallEdgeAndDilate ==
  /\ fnOp = "uniformArgs"
  /\ fnOp' = "uniformMask"
  /\ LET mask == EdgeMask(fnIn.data, fnIn.width, fnIn.height, fnIn.fastMode)
     IN fnOut' = [mask |-> mask,
                  dilated |-> dilate(mask, fnIn.width, fnIn.height, fnIn.iterations)]
  /\ UNCHANGED fnIn
  /\ UNCHANGED pxVars
  /\ UNCHANGED uiVars

SpecUniform == InitUniform /\ [][CallEdgeAndDilate]_vars

(***************************************************************************)
(* The buffer accesses of the gradient-edge functions.  An access is the   *)
(* buffer and its length in elements, the pixel (x, y) the loops are at,   *)
(* the neighbour (dx, dy) the expression stands for, and the index idx the *)
(* expression computes.  The RGBA buffer is counted in pixels: pixel index *)
(* i stands for the bytes 4i .. 4i+2.                                      *)
(***************************************************************************)
Access(buf, len, x, y, dx, dy, idx) ==
  [buf |-> buf, len |-> len, x |-> x, y |-> y, dx |-> dx, dy |-> dy, idx |-> idx]

\* loops that visit every pixel of the image
InnerPixels_WholeImage(width, height) ==
  { <<x, y>> : x \in 0..(width - 1), y \in 0..(height - 1) }

\* for (y = 1; y < height - 1; y++) for (x = 1; x < width - 1; x++)
InnerPixels(width, height) ==
  { <<x, y>> : x \in 1..(width - 2), y \in 1..(height - 2) }

\* the neighbours read by the two Sobel kernels and by hasWhiteNeighbor
Neighbours8 == ((-1..1) \X (-1..1)) \ { <<0, 0>> }

\* applySobelOperator: data[i .. i+2] with i = (y * width + x) * 4, the
\* getGray calls of both kernels, and result[y * width + x]
SobelAccesses(width, height) ==
  LET len == width * height
  IN UNION { { Access("data", len, p[1], p[2], 0, 0, p[2] * width + p[1]),
               Access("result", len, p[1], p[2], 0, 0, p[2] * width + p[1]) }
             \cup { Access("data", len, p[1], p[2], o[1], o[2],
                            (p[2] + o[2]) * width + (p[1] + o[1])) : o \in Neighbours8 } :
             p \in InnerPixels(width, height) }

\* dilate on a buffer of len entries: temp[idx + dy * width + dx], result[idx]
\* with idx = y * width + x, and the copy of result to temp
DilateAccesses(len, width, height, iterations) ==
  IF iterations <= 0 THEN {}
  ELSE UNION { { Access("result", len, p[1], p[2], 0, 0, p[2] * width + p[1]) }
               \cup { Access("temp", len, p[1], p[2], o[1], o[2],
                              p[2] * width + p[1] + o[2] * width + o[1]) :
                        o \in Neighbours8 } :
               p \in InnerPixels(width, height) }
       \cup UNION { { Access("temp", len, i % width, i \div width, 0, 0, i),
                      Access("result", len, i % width, i \div width, 0, 0, i) } :
                    i \in 0..(len - 1) }

\* for (y = step; y < height - step; y += step)
\*   for (x = step; x < width - step; x += step)
FastVisited(width, height) ==
  { <<x, y>> \in (0..(width - 1)) \X (0..(height - 1)) :
      /\ x >= FastStep /\ x < width - FastStep /\ (x - FastStep) % FastStep = 0
      /\ y >= FastStep /\ y < height - FastStep /\ (y - FastStep) % FastStep = 0 }

\* fastEdgeDetection: data at idx, rightIdx and downIdx for every visited
\* pixel, and result[ni] for the pixels over the threshold, where
\* ni = pixelIndex + dy * width + dx passes "ni >= 0 && ni < result.length"
FastAccesses(data, width, height) ==
  LET len == width * height
      reads == UNION { { Access("data", len, p[1], p[2], 0, 0, p[2] * width + p[1]),
                         Access("data", len, p[1], p[2], FastStep, 0,
                                p[2] * width + p[1] + FastStep),
                         Access("data", len, p[1], p[2], 0, FastStep,
                                (p[2] + FastStep) * width + p[1]) } :
                       p \in FastVisited(width, height) }
      writes == { Access("result", len, s[1], s[2], o[1], o[2],
                         s[2] * width + s[1] + o[2] * width + o[1]) :
                    s \in FastEdgeSamples(data, width, height),
                    o \in (-1..1) \X (-1..1) }
  IN reads \cup { a \in writes : a.idx >= 0 /\ a.idx < len }

\* black images of width x height pixels with at most one pixel of the fast palette
OneSpotImages(width, height) ==
  { [i \in 1..(width * height) |-> IF i = a THEN c ELSE <<0, 0, 0, 255>>] :
      a \in 0..(width * height), c \in FastPalette }

\* arguments of the gradient-edge functions: an image of at least one pixel
InitAccess ==
  /\ fnOp = "accessArgs"
  /\ \E width \in 1..MaxAccessW, height \in 1..MaxAccessH, iterations \in 0..MaxIterations :
       \E data \in OneSpotImages(width, height) :
         fnIn = [data |-> data, width |-> width, height |-> height,
                 iterations |-> iterations]
  /\ fnOut = <<>>
  /\ InitComponent
  /\ InitBuffers

\* applySobelOperator, fastEdgeDetection and dilate on the image and on a
\* mask of its size: the accesses they make
CallAccesses ==
  /\ fnOp = "accessArgs"
  /\ fnOp' = "accessed"
  /\ fnOut' = [sobel |-> SobelAccesses(fnIn.width, fnIn.height),
                dilate |-> DilateAccesses(fnIn.width * fnIn.height, fnIn.width,
                                          fnIn.height, fnIn.iterations),
                fast |-> FastAccesses(fnIn.data, fnIn.width, fnIn.height)]
  /\ UNCHANGED fnIn
  /\ UNCHANGED pxVars
  /\ UNCHANGED uiVars

SpecAccess == InitAccess /\ [][CallAccesses]_vars

\* images with edges: black with at most one red pixel, columns of
\* alternating colour, and a checkerboard
EdgeImages(width, height) ==
  LET n == width * height
      black == <<0, 0, 0, 255>>
      red == <<151, 0, 0, 255>>
  IN { [i \in 1..n |-> IF i = a THEN red ELSE black] : a \in 0..n }
     \cup { [i \in 1..n |-> IF ((i - 1) % width) % 2 = 0 THEN red ELSE black],
            [i \in 1..n |-> IF (((i - 1) % width) + ((i - 1) \div width)) % 2 = 0
                            THEN red ELSE black] }

\* text layers: text on every pixel, and faint text on every second pixel
CoveringTextLayers(n) ==
  { [i \in 1..n |-> <<1, 2, 3, 255>>],
    [i \in 1..n |-> IF i % 2 = 0 THEN <<1, 2, 3, 7>> ELSE Transparent] }

\* arguments of gradient-edge detectForeground with a dilation of any
\* iteration count
InitBorder ==
  /\ fnOp = "borderArgs"
  /\ \E width \in 1..MaxBorderW, height \in 1..MaxBorderH, fastMode \in BOOLEAN,
        iterations \in 0..MaxIterations :
       \E data \in EdgeImages(width, height), text \in CoveringTextLayers(width * height) :
         fnIn = [data |-> data, width |-> width, height |-> height, fastMode |-> fastMode,
                 iterations |-> iterations, text |-> text]
  /\ fnOut = <<>>
  /\ InitComponent
  /\ InitBuffers

\* Steps 3, 4 and 8 of gradient-edge detectForeground: edge mask, dilate,
\* and the compositing loop
CallDetectA ==
  /\ fnOp = "borderArgs"
  /\ fnOp' = "bordered"
  /\ LET dilatedMask == dilate(EdgeMask(fnIn.data, fnIn.width, fnIn.height, fnIn.fastMode),
                               fnIn.width, fnIn.height, fnIn.iterations)
     IN fnOut' = [mask |-> dilatedMask,
                  out |-> CompositeA(fnIn.data, dilatedMask, fnIn.text)]
  /\ UNCHANGED fnIn
  /\ UNCHANGED pxVars
  /\ UNCHANGED uiVars

SpecBorder == InitBorder /\ [][CallDetectA]_vars

(***************************************************************************)
(* Properties of the pixel passes (SpecPixel)                              *)
(***************************************************************************)
StrategyARan == pxOp \in {"edgeStd", "edgeFast"}

StrategyBRan == pxOp \in {"compositeB", "compositeBAlpha"}

\* C1: in both compositing strategies the result at a pixel whose mask entry
\* is 255 is the same for two runs that differ only in the text layer, and it
\* is the text-free composite of that pixel (the original pixel in Strategy
\* A, the cutout over the original pixel in Strategy B).
C1_ForegroundPixelsIgnoreText ==
  (StrategyARan \/ StrategyBRan) =>
    \A p \in 1..Len(outData) :
      Rd(maskData, p - 1) = 255 =>
        /\ outData[p] = outData2[p]
        /\ outData[p] = IF StrategyARan THEN imgData[p]
                        ELSE SourceOver(fgData[p], imgData[p])

C1_Witness ==
  /\ StrategyBRan
  /\ \E p \in 1..Len(outData) :
       /\ Rd(maskData, p - 1) = 255
       /\ textData[p][4] > 0
       /\ textData[p] # textData2[p]
       /\ fgData[p][4] < 255

\* C2: after gradient-edge detectForeground with returnMaskOnly = false every
\* pixel p of the canvas is the original pixel if Mask[p] = 255, otherwise
\* the text pixel (all four channels) if the text alpha there is > 0 and
\* the original pixel if it is 0.
C2_StrategyAResult ==
  StrategyARan =>
    /\ Len(outData) = Len(imgData)
    /\ \A p \in 1..Len(outData) : \A c \in 1..4 :
         outData[p][c] = IF maskData[p] = 255 THEN imgData[p][c]
                         ELSE IF textData[p][4] > 0 THEN textData[p][c]
                         ELSE imgData[p][c]

C2_Witness ==
  /\ StrategyARan
  /\ \E p \in 1..Len(outData) : maskData[p] = 255 /\ textData[p][4] > 0
  /\ \E p \in 1..Len(outData) :
       maskData[p] # 255 /\ textData[p][4] \in 1..254 /\ textData[p][4] # imgData[p][4]
  /\ \E p \in 1..Len(outData) : maskData[p] # 255 /\ textData[p][4] = 0

\* C3: after renderCompositeImage every pixel at which the cutout's alpha is
\* 255 equals the cutout pixel, whatever the mask entry, the text layer and
\* the original image are at that pixel.
C3_OpaqueCutoutWins ==
  StrategyBRan =>
    \A p \in 1..Len(outData) :
      fgData[p][4] = 255 => outData[p] = fgData[p] /\ outData2[p] = fgData[p]

C3_Witness ==
  /\ StrategyBRan
  /\ \E p \in 1..Len(outData) :
       /\ fgData[p][4] = 255
       /\ Rd(maskData, p - 1) # 255
       /\ textData[p][4] > 0
       /\ textData[p] # fgData[p]

IsBinaryMaskOf(m, n) == Len(m) = n /\ \A i \in 1..Len(m) : m[i] \in {0, 255}

\* C4: every mask of a successful mask generation (gradient edge standard
\* and fast, before and after dilation, and alpha threshold) has exactly
\* width x height entries, each 0 or 255.
C4_MaskShape ==
  /\ pxOp \in {"edgeStd", "edgeStdMask"} =>
       /\ IsBinaryMaskOf(EdgeMask(imgData, pxW, pxH, FALSE), pxW * pxH)
       /\ IsBinaryMaskOf(maskData, pxW * pxH)
  /\ pxOp \in {"edgeFast", "edgeFastMask"} =>
       /\ IsBinaryMaskOf(EdgeMask(imgData, pxW, pxH, TRUE), pxW * pxH)
       /\ IsBinaryMaskOf(maskData, pxW * pxH)
  /\ pxOp \in {"alphaMask", "compositeBAlpha"} =>
       IsBinaryMaskOf(maskData, Len(fgData))

C4_Witness ==
  /\ pxOp = "edgeStdMask"
  /\ pxW # pxH
  /\ \E i \in 1..Len(maskData) : maskData[i] = 255
  /\ \E i \in 1..Len(maskData) : maskData[i] = 0

(***************************************************************************)
(* Properties of the component (Spec)                                      *)
(***************************************************************************)
\* the compositor has run and left a composite on the canvas
CompositorRan == composite # NoComposite

\* C5: whenever the Strategy B compositor runs, the mask it indexes has as
\* many entries as the canvas it composites onto has pixels (mask length =
\* canvas width x canvas height), also for images larger than maxDimension.
C5_MaskMatchesCanvas ==
  CompositorRan => composite.mask.len = composite.width * composite.height

\* C6: after a new upload no completion of an earlier upload or pipeline run
\* writes the original-image, mask, cutout URL or cutout slots: each slot is
\* empty or holds data of the newest upload.
C6_SlotsHoldNewestUpload ==
  /\ originalImageRef \in {0, Len(files)}
  /\ foregroundMaskRef.file \in {0, Len(files)}
  /\ foregroundUrlRef \in {0, Len(files)}
  /\ foregroundImageRef \in {0, Len(files)}

\* C7: mask generation is started once per upload; no text edit, drag or
\* show-mask toggle starts another, so the generations started never
\* outnumber the uploads.
C7_OneMaskGenerationPerUpload == segStarted <= Len(files)

\* C8: while Dragging at most one recomposition is pending at any time,
\* because each position update cancels the ones scheduled before it.
C8_OnePendingWhileDragging == isDragging => PendingRecompositions <= 1

\* Idle with a loaded cutout: a recomposition can be scheduled
Idle ==
  /\ image # 0
  /\ ~isProcessing
  /\ ~isDragging
  /\ foregroundImageRef # 0
  /\ canvasSize.width # 0
  /\ canvasSize.height # 0

\* the text settings the pending recompositions will draw
PendingTexts ==
  { g.ts : g \in ScheduledFrames } \cup { timers[i].ts : i \in ScheduledTimers }

\* C9: a text/style change made while Idle cancels every recomposition
\* scheduled before it and schedules exactly one, which uses the TextSpec of
\* that change.
C9_IdleChangeCoalesces ==
  [][(Idle /\ Idle' /\ textSettings' # textSettings) =>
       (PendingRecompositions' = 1 /\ PendingTexts' = {textSettings'})]_vars

C11_DilateMonotonic ==
  fnOp = "dilate" =>
    /\ Len(fnOut.result) = Len(fnIn.data)
    /\ Len(fnOut.more) = Len(fnIn.data)
    /\ \A i \in 1..Len(fnIn.data) :
         /\ fnOut.result[i] = 255 => fnOut.more[i] = 255
         /\ fnIn.data[i] = 255 => fnOut.result[i] = 255

C11_Witness ==
  /\ fnOp = "dilate"
  /\ fnIn.iterations = 1
  /\ fnOut.result # fnIn.data
  /\ fnOut.more # fnOut.result
  /\ \E i \in 1..Len(fnIn.data) : fnIn.data[i] = 255 /\ ~((i - 1) \in DilateVisited(fnIn.width, fnIn.height))

\* C12: dilate with 0 iterations returns a mask equal to its input at every
\* index, for every mask, width and height.
C12_DilateZeroIsIdentity ==
  (fnOp = "dilate" /\ fnIn.iterations = 0) => fnOut.result = fnIn.data

C12_Witness ==
  /\ fnOp = "dilate"
  /\ fnIn.iterations = 0
  /\ fnOut.more # fnIn.data
  /\ Len(fnIn.data) # fnIn.width * fnIn.height

\* pixel (x, y) is not on the 1-pixel border of a width x height image
IsInterior(x, y, width, height) == x >= 1 /\ x < width - 1 /\ y >= 1 /\ y < height - 1

\* C13: in standard mode, before dilation, an interior pixel is 255 exactly
\* when its Sobel gradient magnitude sqrt(Gx^2 + Gy^2) over the unweighted
\* RGB average is strictly greater than 50 (that is (3Gx)^2 + (3Gy)^2 >
\* 150^2), and 0 otherwise; every border pixel is 0.
C13_SobelThresholdExact ==
  fnOp = "sobelEdge" =>
    \A x \in 0..(fnIn.width - 1), y \in 0..(fnIn.height - 1) :
      LET gx3 == HorizontalGradient3(fnIn.data, fnIn.width, x, y)
          gy3 == VerticalGradient3(fnIn.data, fnIn.width, x, y)
      IN fnOut.mask[y * fnIn.width + x + 1] =
           IF IsInterior(x, y, fnIn.width, fnIn.height)
              /\ gx3 * gx3 + gy3 * gy3 > (3 * SobelThreshold) * (3 * SobelThreshold)
           THEN 255 ELSE 0

\* C14: in the alpha-threshold strategy Mask[p] is 255 exactly when the
\* cutout's alpha at p is strictly greater than 128 (128 gives 0, 200 gives
\* 255), whatever the cutout's R, G, B values are.
C14_AlphaThreshold ==
  fnOp = "alphaMask" =>
    /\ Len(fnOut.mask) = Len(fnIn.fg)
    /\ \A p \in 1..Len(fnIn.fg) :
         fnOut.mask[p] = IF fnIn.fg[p][4] > 128 THEN 255 ELSE 0
    /\ fnOut.mask = fnOut.black

C14_Witness ==
  /\ fnOp = "alphaMask"
  /\ \E p \in 1..Len(fnIn.fg) : fnIn.fg[p][4] = 128 /\ fnIn.fg[p][1] # 0 /\ fnOut.mask[p] = 0
  /\ \E p \in 1..Len(fnIn.fg) : fnIn.fg[p][4] = 200 /\ fnOut.mask[p] = 255
  /\ \E p \in 1..Len(fnIn.fg) : fnIn.fg[p][4] = 129 /\ fnIn.fg[p][1] = 0

\* sum of the absolute R, G, B differences of the pixels at (x1, y1) and (x2, y2)
ColourDistance(data, width, x1, y1, x2, y2) ==
  LET p == data[y1 * width + x1 + 1]
      q == data[y2 * width + x2 + 1]
  IN Abs(p[1] - q[1]) + Abs(p[2] - q[2]) + Abs(p[3] - q[3])

\* the larger of the differences of (x, y) to the pixel 2 to the right and
\* to the pixel 2 below
SampleDifference(data, width, x, y) ==
  Max2(ColourDistance(data, width, x, y, x + 2, y),
       ColourDistance(data, width, x, y, x, y + 2))

\* the pixels fast edge detection samples
IsSampled(x, y, width, height) ==
  /\ x % 2 = 0 /\ 2 <= x /\ x < width - 2
  /\ y % 2 = 0 /\ 2 <= y /\ y < height - 2

\* C15: in fast mode, before dilation, a pixel is 255 exactly when it lies
\* in the 3x3 neighbourhood of a sampled pixel (x, y even, 2 <= x < width-2,
\* 2 <= y < height-2) whose larger sum of absolute R, G, B differences to
\* the pixel 2 to the right / 2 below is strictly greater than 30.
C15_FastEdgeRule ==
  fnOp = "fastEdge" =>
    /\ Len(fnOut.mask) = fnIn.width * fnIn.height
    /\ \A px \in 0..(fnIn.width - 1), py \in 0..(fnIn.height - 1) :
         fnOut.mask[py * fnIn.width + px + 1] =
           IF \E x \in (px - 1)..(px + 1), y \in (py - 1)..(py + 1) :
                /\ IsSampled(x, y, fnIn.width, fnIn.height)
                /\ SampleDifference(fnIn.data, fnIn.width, x, y) > 30
           THEN 255 ELSE 0

C15_Witness ==
  /\ fnOp = "fastEdge"
  /\ \E x \in 0..(fnIn.width - 1), y \in 0..(fnIn.height - 1) :
       /\ IsSampled(x, y, fnIn.width, fnIn.height)
       /\ SampleDifference(fnIn.data, fnIn.width, x, y) = 30
       /\ fnOut.mask[y * fnIn.width + x + 1] = 0
  /\ \E x \in 0..(fnIn.width - 1), y \in 0..(fnIn.height - 1) :
       /\ IsSampled(x, y, fnIn.width, fnIn.height)
       /\ SampleDifference(fnIn.data, fnIn.width, x, y) = 31
       /\ fnOut.mask[(y + 1) * fnIn.width + x + 2] = 255
       /\ fnOut.mask[(y - 1) * fnIn.width + x] = 255

\* C16: for every input size W >= 1, H >= 1 the computed canvas size
\* (W', H') satisfies 1 <= W' <= 1200 and 1 <= H' <= 1200.
C16_CanvasWithinLimits ==
  fnOp = "resized" =>
    /\ 1 <= fnOut.width /\ fnOut.width <= maxDimension
    /\ 1 <= fnOut.height /\ fnOut.height <= maxDimension

C16_Witness ==
  /\ fnOp = "resized"
  /\ fnIn.height > maxDimension
  /\ fnIn.width * maxDimension < fnIn.height
  /\ fnOut = [width |-> 1, height |-> maxDimension]

\* C17: an image with both edges <= 1200 keeps its size; otherwise the longer
\* edge becomes exactly 1200 and the other edge differs from its exact
\* proportional value shorter * 1200 / longer by less than one pixel.
C17_AspectRatioKept ==
  fnOp = "resized" =>
    IF fnIn.width <= maxDimension /\ fnIn.height <= maxDimension
    THEN fnOut = fnIn
    ELSE IF fnIn.width > fnIn.height
    THEN /\ fnOut.width = maxDimension
         /\ Abs(fnOut.height * fnIn.width - fnIn.height * maxDimension) < fnIn.width
    ELSE /\ fnOut.height = maxDimension
         /\ Abs(fnOut.width * fnIn.height - fnIn.width * maxDimension) < fnIn.height

RECURSIVE SumOf(_)
SumOf(q) == IF q = <<>> THEN 0 ELSE q[1] + SumOf(Tail(q))

\* the vertical offsets from the anchor of the drawn lines, in hundredths of
\* a pixel
LineOffsets(calls) ==
  [j \in 1..Len(calls) |-> calls[j].y - fnIn.ts.y * fnIn.height]

\* C18: content split on line breaks into n >= 1 lines with font size s has
\* line i (from 0) drawn at y = anchorY + (i - n/2 + 0.5) * 1.2 * s and
\* x = anchorX, the anchor being (x% of width, y% of height); one line has
\* offset 0, the offsets sum to 0, consecutive lines are 1.2 * s apart, and
\* "A\nB" at size 10 has offsets -6 and +6.
C18_LineLayout ==
  fnOp = "laidOut" =>
    LET content == fnIn.ts.content
        n == Cardinality({ k \in 1..Len(content) : content[k] = LineBreak }) + 1
        s == fnIn.ts.size
        offsets == LineOffsets(fnOut.render)
    IN /\ fnOut.detect = fnOut.render
       /\ Len(fnOut.render) = n
       /\ \A j \in 1..n :
            /\ fnOut.render[j].x = fnIn.ts.x * fnIn.width
            /\ 2 * offsets[j] = (2 * (j - 1) - n + 1) * 120 * s
       /\ n = 1 => offsets[1] = 0
       /\ SumOf(offsets) = 0
       /\ \A j \in 1..(n - 1) : offsets[j + 1] - offsets[j] = 120 * s
       /\ (content = <<"A", LineBreak, "B">> /\ s = 10) =>
            /\ offsets = <<-600, 600>>
            /\ fnOut.render[1].text = <<"A">>
            /\ fnOut.render[2].text = <<"B">>

C18_Witness ==
  /\ fnOp = "laidOut"
  /\ fnIn.ts.content = <<"A", LineBreak, "B">>
  /\ fnIn.ts.size = 10
  /\ fnIn.ts.y = 50 /\ fnIn.height = 800
  /\ fnOut.render[1].y = 39400
  /\ fnOut.render[2].y = 40600

\* C19: when the segmentation collaborator fails or the source or cutout
\* image cannot be decoded, the failure is terminal for that image: after it
\* no mask and no cutout are stored for the image, no composite is rendered
\* from it, and isProcessing is false.
C19_FailureIsTerminal ==
  [][\A i \in 1..Len(runs) :
       RunFails(i) =>
         /\ foregroundMaskRef'.file # runs[i].file
         /\ foregroundUrlRef' # runs[i].file
         /\ foregroundImageRef' # runs[i].file
         /\ composite'.mask.file # runs[i].file
         /\ ~isProcessing']_vars

\* C20: gradient-edge detectForeground on a canvas of non-positive width or
\* height, without a 2D context or with zero-length pixel data returns a
\* zero-length mask and leaves every pixel buffer as it was (no output is
\* written); and every compositor run uses a mask that is not zero-length.
C20_EmptyMaskOnInvalidCanvas ==
  /\ (/\ pxOp \in {"edgeEmpty", "edgeStd", "edgeFast", "edgeStdMask", "edgeFastMask"}
      /\ (pxW <= 0 \/ pxH <= 0 \/ Len(imgData) = 0)) => pxOp = "edgeEmpty"
  /\ pxOp = "edgeEmpty" =>
       /\ maskData = <<>>
       /\ outData = <<>>
       /\ outData2 = <<>>
  /\ pxOp \in {"edgeStd", "edgeFast", "compositeB", "compositeBAlpha"} =>
       /\ Len(maskData) > 0
       /\ Len(outData) = Len(imgData)

C20_Witness ==
  /\ pxOp = "edgeEmpty"
  /\ pxW = 0
  /\ pxH > 0
  /\ maskData = <<>>
  /\ outData = <<>>

\* C21: when a new upload starts, every callback the previous pipeline has
\* scheduled but not yet run is cancelled: no pipeline run of an earlier
\* upload and no delayed first render is pending after handleImageUpload.
C21_UploadCancelsPending ==
  [][handleImageUpload =>
       /\ \A i \in 1..Len(runs') : runs'[i].file = Len(files')
       /\ \A i \in 1..Len(timers') : timers'[i].kind # "first"]_vars

\* C22: for an image whose pixels all have the same colour the gradient-edge
\* mask (standard and fast mode) is all-zero before dilation, and dilating
\* it with any iteration count n >= 0 yields an all-zero mask.
C22_UniformImageHasEmptyMask ==
  fnOp = "uniformMask" =>
    /\ Len(fnOut.mask) = fnIn.width * fnIn.height
    /\ \A p \in 1..Len(fnOut.mask) : fnOut.mask[p] = 0
    /\ Len(fnOut.dilated) = fnIn.width * fnIn.height
    /\ \A p \in 1..Len(fnOut.dilated) : fnOut.dilated[p] = 0

C22_Witness ==
  /\ fnOp = "uniformMask"
  /\ fnIn.width = 4
  /\ fnIn.height = 4
  /\ fnIn.data[1] = <<255, 0, 0, 255>>
  /\ ~fnIn.fastMode
  /\ fnIn.iterations = 2
  /\ fnOut.dilated = [p \in 1..16 |-> 0]

\* the percentage v is the pointer coordinate p on an edge of length size,
\* or the nearest bound when p lies outside 0..size
NearestPercentage(p, size, v) ==
  IF p < 0 THEN v = 0 ELSE IF p > size THEN v = 100 ELSE v * size = p * 100

\* C23: after any sequence of canvas pointer events and position-slider
\* changes the text's x and y are each within 0..100, and a pointer position
\* outside the canvas rectangle is clamped to the nearest bound.
C23_PositionWithinBounds ==
  /\ [](/\ 0 <= textSettings.x /\ textSettings.x <= 100
        /\ 0 <= textSettings.y /\ textSettings.y <= 100)
  /\ [][\A pos \in PointerPositions :
          (\/ MouseDownAccepted /\ handleMouseDown(pos)
           \/ \E g \in MoveFrames : g.pos = pos /\ MoveFrame(g)) =>
            /\ NearestPercentage(pos[1], RectWidth, textSettings'.x)
            /\ NearestPercentage(pos[2], RectHeight, textSettings'.y)]_vars

C23_Witness ==
  /\ textSettings.id > 1
  /\ textSettings.x = 0
  /\ textSettings.y = 25

\* the mask of a dilate call has one entry per pixel of a width x height image
WellFormedCall ==
  /\ fnOp = "dilate"
  /\ fnIn.width >= 1
  /\ fnIn.height >= 1
  /\ Len(fnIn.data) = fnIn.width * fnIn.height

\* the entry of pixel (x, y) in a mask of the call's width
At(mask, x, y) == mask[y * fnIn.width + x + 1]

\* the interior pixels of the call's image
InteriorPixels ==
  { c \in (0..(fnIn.width - 1)) \X (0..(fnIn.height - 1)) :
      IsInterior(c[1], c[2], fnIn.width, fnIn.height) }

\* after n iterations a lone interior foreground pixel seed has grown into
\* the interior pixels at most n steps away, diagonal steps included
GrownBy(mask, seed, n) ==
  \A c \in InteriorPixels :
    At(mask, c[1], c[2]) = 255 <=> Max2(Abs(c[1] - seed[1]), Abs(c[2] - seed[2])) <= n

\* C24: one dilation iteration reads only the state before the iteration:
\* after dilate(mask, 1) an interior pixel is 255 exactly when it or one of
\* its 8 neighbours was 255 in the input, whatever the visiting order; a
\* single interior foreground pixel grows by exactly one ring per iteration
\* within the interior.
C24_DilateReadsPreviousState ==
  WellFormedCall =>
    /\ fnIn.iterations = 1 =>
         \A c \in InteriorPixels :
           At(fnOut.result, c[1], c[2]) = 255 <=>
             \E dx \in -1..1, dy \in -1..1 : At(fnIn.data, c[1] + dx, c[2] + dy) = 255
    /\ \A seed \in InteriorPixels :
         (\A i \in 1..Len(fnIn.data) :
            fnIn.data[i] = 255 <=> i = seed[2] * fnIn.width + seed[1] + 1) =>
           /\ GrownBy(fnOut.result, seed, fnIn.iterations)
           /\ GrownBy(fnOut.more, seed, fnIn.iterations + 1)

C24_Witness ==
  /\ WellFormedCall
  /\ fnIn.width = 5
  /\ fnIn.height = 5
  /\ fnIn.iterations = 1
  /\ fnIn.data = [i \in 1..25 |-> IF i = 7 THEN 255 ELSE 0]
  /\ At(fnOut.result, 2, 2) = 255
  /\ At(fnOut.result, 3, 3) = 0
  /\ At(fnOut.more, 3, 3) = 255

\* C25: dilate never changes a border pixel: for every mask, size and
\* iteration count each pixel in row 0, row height-1, column 0 or column
\* width-1 has the same value in the output as in the input.
C25_DilateKeepsBorder ==
  WellFormedCall =>
    \A x \in 0..(fnIn.width - 1), y \in 0..(fnIn.height - 1) :
      ~IsInterior(x, y, fnIn.width, fnIn.height) =>
        /\ At(fnOut.result, x, y) = At(fnIn.data, x, y)
        /\ At(fnOut.more, x, y) = At(fnIn.data, x, y)

C25_Witness ==
  /\ WellFormedCall
  /\ fnIn.iterations >= 1
  /\ \E c \in InteriorPixels :
       /\ At(fnIn.data, c[1], c[2]) = 255
       /\ At(fnIn.data, c[1] - 1, c[2]) = 0
       /\ At(fnOut.result, c[1] - 1, c[2]) = 0
       /\ c[1] = 1
  /\ \E i \in 1..Len(fnIn.data) : fnIn.data[i] = 0 /\ fnOut.result[i] = 255

\* C26: whenever the compositor runs, the original image, the mask, the
\* cutout and the canvas size it uses all derive from the same upload.
C26_CompositeFromOneUpload ==
  CompositorRan =>
    /\ composite.mask.file = composite.original
    /\ composite.cutout = composite.original
    /\ [width |-> composite.width, height |-> composite.height] =
         ResizedCanvas(files[composite.original][1], files[composite.original][2])

\* C27: Strategy B places text by the rule of Strategy A: at every pixel
\* where the cutout is fully transparent the Strategy B result equals the
\* Strategy A result for the same original image, mask and text layer (the
\* text pixel if the mask entry is not 255 and the text alpha is > 0, else
\* the original pixel).
C27_StrategiesAgreeOffCutout ==
  pxOp \in {"compositeB", "compositeBAlpha"} =>
    \A i \in 1..Len(imgData) :
      fgData[i][4] = 0 =>
        /\ outData[i] = CompositeA(imgData, maskData, textData)[i]
        /\ outData2[i] = CompositeA(imgData, maskData, textData2)[i]
        /\ outData[i] = IF Rd(maskData, i - 1) # 255 /\ textData[i][4] > 0
                        THEN textData[i] ELSE imgData[i]

C27_Witness ==
  /\ pxOp = "compositeB"
  /\ \E i \in 1..Len(imgData) :
       /\ fgData[i][4] = 0
       /\ Rd(maskData, i - 1) = 0
       /\ textData[i] = <<200, 100, 50, 128>>
       /\ outData[i] = textData[i]
  /\ \E i \in 1..Len(imgData) :
       /\ fgData[i][4] = 0
       /\ Rd(maskData, i - 1) = 255
       /\ textData[i][4] > 0
       /\ outData[i] = imgData[i]

\* C28: a change of the text settings and the recomposition it triggers
\* leave the stored mask, the original image, the cutout and the canvas size
\* unchanged and start no mask generation; the recomposition writes only
\* the canvases (the composite).
C28_RecompositionKeepsInputs ==
  [][(\/ textSettings' # textSettings
      \/ \E g \in frames : RenderFrame(g)
      \/ DragRenderTimer) =>
       UNCHANGED <<foregroundMaskRef, originalImageRef, foregroundImageRef,
                   foregroundUrlRef, canvasSize, segStarted, runs, isProcessing>>]_vars

C28_Witness ==
  /\ CompositorRan
  /\ composite.text > 0
  /\ composite.text = textSettings.id
  /\ segStarted = 1

\* C29: from the start of an upload until its pipeline has rendered its
\* first composite or failed, isProcessing stays true: while the file reader
\* or a pipeline run of the newest upload is pending, no callback of an
\* earlier upload or run has set isProcessing to false.
C29_ProcessingWhileInFlight ==
  (\/ Len(files) \in readers
   \/ \E i \in 1..Len(runs) : runs[i].file = Len(files)) => isProcessing

\* no callback is pending: no file reader, pipeline run, timer or frame
Quiescent == readers = {} /\ runs = <<>> /\ timers = <<>> /\ frames = {}

Loaded ==
  /\ image # 0
  /\ ~isProcessing
  /\ originalImageRef # 0
  /\ foregroundImageRef # 0
  /\ foregroundMaskRef # NoMask
  /\ canvasSize.width # 0
  /\ canvasSize.height # 0

\* C31: on a loaded, non-processing image, once no frame callback or timer
\* remains pending the most recently executed compositor run used the
\* current TextSpec; and a recomposition scheduled for an older TextSpec
\* never executes after the recomposition for a newer one.
C31_NewestTextWins ==
  /\ []((Loaded /\ CompositorRan /\ frames = {} /\ timers = <<>>) =>
          composite.text = textSettings.id)
  /\ [][(DragRenderTimer \/ \E g \in frames : RenderFrame(g)) =>
          composite'.text >= composite.text]_vars

\* an access stays in its buffer and reaches the pixel it stands for
InBuffer(a) == a.idx >= 0 /\ a.idx < a.len

NoWrap(a, width, height) ==
  /\ a.x + a.dx >= 0
  /\ a.x + a.dx < width
  /\ a.y + a.dy >= 0
  /\ a.y + a.dy < height
  /\ a.idx % width = a.x + a.dx
  /\ a.idx \div width = a.y + a.dy

\* C32: for every width >= 1 and height >= 1, also below 3x3 and 5x5, every
\* buffer read and write of applySobelOperator, dilate and fastEdgeDetection
\* uses an index inside the buffer, and no neighbour access wraps from the
\* end of one row to the start of the next.
C32_AccessesInBounds ==
  fnOp = "accessed" =>
    \A a \in fnOut.sobel \cup fnOut.dilate \cup fnOut.fast :
      InBuffer(a) /\ NoWrap(a, fnIn.width, fnIn.height)

C32_Witness ==
  /\ fnOp = "accessed"
  /\ fnIn.width = 5
  /\ fnIn.height = 6
  /\ fnIn.iterations = 1
  /\ \E a \in fnOut.fast : a.buf = "result" /\ a.dx = 1 /\ a.dy = 1
  /\ \E a \in fnOut.sobel : a.x + a.dx = fnIn.width - 1 /\ a.y + a.dy = 0
  /\ \E a \in fnOut.dilate : a.buf = "temp" /\ a.idx = fnIn.width * fnIn.height - 1

\* the indices (from 1) of the pixels on the 1-pixel border of the image
BorderPixels(width, height) ==
  { i \in 1..(width * height) :
      ~IsInterior((i - 1) % width, (i - 1) \div width, width, height) }

\* C33: in the gradient-edge path, standard and fast mode, after dilation
\* with any iteration count, every pixel on the 1-pixel border of the final
\* mask is 0, so under Strategy A a border pixel covered by text always
\* shows the text pixel.
C33_BorderShowsText ==
  fnOp = "bordered" =>
    \A i \in BorderPixels(fnIn.width, fnIn.height) :
      /\ fnOut.mask[i] = 0
      /\ fnIn.text[i][4] > 0 => fnOut.out[i] = fnIn.text[i]

C33_Witness ==
  /\ fnOp = "bordered"
  /\ fnIn.width = 5
  /\ fnIn.height = 5
  /\ fnIn.iterations = 2
  /\ \A i \in 1..25 : i \notin BorderPixels(5, 5) => fnOut.mask[i] = 255
  /\ fnIn.text[1][4] > 0
  /\ fnOut.out[1] = fnIn.text[1]
  /\ fnOut.out[7] = fnIn.data[7]

\* a pointer-down or pointer-move on the canvas, or a change of a TextEditor
\* control
CanvasOrControlEvent ==
  \/ \E pos \in PointerPositions : handleMouseDown(pos)
  \/ \E pos \in PointerPositions : handleMouseMove(pos)
  \/ TextEdit
  \/ \E axis \in {"x", "y"}, value \in SliderValues : handlePositionChange(axis, value)

\* C34: while isProcessing is true, pointer-down and pointer-move on the
\* canvas and every TextEditor control change leave TextSpec and the
\* Idle/Dragging state unchanged and schedule no position update (neither
\* pointer handler runs past its guard, also when processing starts during a
\* drag); and a pointer-move while Idle never changes TextSpec: it schedules
\* no position update, and none is pending while Idle.
C34_NoEditWhileProcessing ==
  /\ [][(isProcessing /\ CanvasOrControlEvent) =>
          UNCHANGED <<textSettings, isDragging, frames, dragRAF>>]_vars
  /\ [][(~isDragging /\ \E pos \in PointerPositions : handleMouseMove(pos)) =>
          UNCHANGED <<textSettings, frames, dragRAF>>]_vars
  /\ [](isProcessing => ~MouseDownAccepted /\ ~MouseMoveAccepted)
  /\ [](~isDragging => MoveFrames = {})

C34_Witness ==
  /\ isProcessing
  /\ lastPointer = "down"
  /\ lastHandled = "up"
  /\ ~isDragging
  /\ textSettings.id = 1

\* the segmentation of some pipeline run is in progress
SegmentationRuns == \E i \in 1..Len(runs) : runs[i].phase = "segmenting"

\* C35: for progress fractions in [0, 1] reported by the segmentation
\* collaborator, the loading progress stays within [30, 80] while
\* segmentation runs, is within [0, 100] in every reachable state, and
\* equals 100 only after the first composite of that upload has been
\* rendered.
C35_ProgressWithinRange ==
  /\ SegmentationRuns => (loadingProgress >= 30 /\ loadingProgress <= 80)
  /\ loadingProgress >= 0
  /\ loadingProgress <= 100
  /\ loadingProgress = 100 => (CompositorRan /\ composite.cutout = foregroundImageRef)

====
